---------------------------- MODULE Spec2Model ----------------------------
(***************************************************************************)
(* rdfless: recovery parsing (src/src/parser/robust.rs), the triple filter *)
(* (src/src/filter.rs) and the renderer (src/src/formatter).               *)
(*                                                                         *)
(* Text is modelled at two levels.  An input document is a sequence of     *)
(* physical lines and a line is a sequence of lexical tokens; the tests    *)
(* the recovery engine makes on a line (trim, starts_with, ends_with, the  *)
(* brace count) are computed on its tokens.  The values the program        *)
(* compares and rewrites (IRIs, prefix names, filter patterns) are         *)
(* sequences of characters.                                                *)
(***************************************************************************)
EXTENDS Integers, Sequences, FiniteSets, TLC

(***************************************************************************)
(* Bounds of the model.                                                    *)
(***************************************************************************)
MaxLines == 3

VARIABLES
    \* ---- parse_robust (src/src/parser/robust.rs)
    format,               \* InputFormat of the parse call
    continue_on_error,    \* the flag of parse_robust
    lines,                \* reader.lines(): the physical lines of the input
    pc,                   \* position in the parse call
    line_num,             \* lines.iter().enumerate(): lines consumed so far
    prefix_declarations,  \* first pass: the collected @prefix lines
    current_statement,    \* second pass: the accumulation buffer
    brace_depth,          \* TriG only
    result,               \* the ParseResult under construction
    ret,                  \* what parse_robust returned
    \* ---- TripleFilter::filter_triples (src/src/filter.rs)
    subject_filter, predicate_filter, object_filter,   \* Option<String>
    triples,              \* the &[OwnedTriple] handed to filter_triples
    prefixes,             \* the &HashMap<String, String> handed to it
    filtered,             \* the Vec<OwnedTriple> it returned
    fpc,                  \* position in the filter call
    \* ---- term formatting and re-expansion (src/src/utils.rs, src/src/filter.rs)
    uri,                  \* a NamedNode IRI
    term_prefixes,        \* the PrefixMap
    compact_text,         \* the term in compact mode
    expanded_text,        \* the term in expanded mode
    reexpanded,           \* expand_prefixed_name(compact_text)
    tpc,                  \* position
    \* ---- render_output (src/src/formatter), on triples and prefixes above
    should_expand,        \* the flag of render_output
    colors,               \* whether the ColorConfig's colours reach the output
    terminal_width,       \* what get_terminal_width() reports
    graph_keys,           \* the sorted keys of graph_groups
    graph_idx,            \* for graph_key in graph_keys: the key being written
    triple_idx,           \* for triple in triples_in_graph: the next triple
    current_subject,      \* Option<String>: the running subject
    output,               \* the lines written to the writer
    rpc,                  \* position in the render call
    \* ---- format_object on a literal (src/src/formatter/writer.rs)
    literal,              \* the OwnedTriple whose object is formatted
    literal_prefixes,     \* the PrefixMap of compact mode
    literal_colors,       \* whether colours reach the output
    compact_object,       \* Option<String>: format_object, compact mode
    expanded_object,      \* Option<String>: format_object, expanded mode
    opc,                  \* position
    \* ---- should_use_pager (src/src/pager.rs)
    no_pager_explicit,    \* args.no_pager_explicit()
    use_pager,            \* args.use_pager(config)
    auto_pager,           \* config.output.auto_pager
    auto_pager_threshold, \* config.output.auto_pager_threshold
    terminal_height,      \* utils::get_terminal_height()
    estimated_lines,      \* the estimate handed to should_use_pager
    paging,               \* Option<bool>: what should_use_pager returned
    ppc,                  \* position
    \* ---- extract_prefixes (src/src/parser/common.rs)
    content,              \* the lines of the reader
    content_idx,          \* lines read so far
    extracted,            \* the HashMap under construction
    xpc,                  \* position
    \* ---- triple_to_owned, quad_to_owned, create_triple (format adapter)
    adapter_input,        \* what the adapter function is called with
    owned,                \* Option<OwnedTriple>: what it returned
    apc,                  \* position
    \* ---- provn::parse_for_estimation (src/src/parser/provn.rs)
    provn_input,          \* reader.lines()
    lines_buffer,         \* first pass: the lines read so far
    provn_prefixes,       \* the prefixes of the first pass
    provn_idx,            \* second pass: lines interpreted so far
    provn_triples,        \* the triples of the second pass
    provn_ret,            \* Option<Result>: what parse_for_estimation returned
    vpc                   \* position

parseVars == <<format, continue_on_error, lines, pc, line_num,
               prefix_declarations, current_statement, brace_depth, result, ret>>
filterVars == <<subject_filter, predicate_filter, object_filter, triples, prefixes,
                filtered, fpc>>
termVars == <<uri, term_prefixes, compact_text, expanded_text, reexpanded, tpc>>

renderVars == <<should_expand, colors, terminal_width, graph_keys, graph_idx,
                triple_idx, current_subject, output, rpc>>

objectVars == <<literal, literal_prefixes, literal_colors, compact_object,
                expanded_object, opc>>
pagerVars == <<no_pager_explicit, use_pager, auto_pager, auto_pager_threshold,
               terminal_height, estimated_lines, paging, ppc>>
extractVars == <<content, content_idx, extracted, xpc>>
adapterVars == <<adapter_input, owned, apc>>
provnVars == <<provn_input, lines_buffer, provn_prefixes, provn_idx, provn_triples,
               provn_ret, vpc>>

vars == <<parseVars, filterVars, termVars, renderVars, objectVars, pagerVars,
          extractVars, adapterVars, provnVars>>

\* what an operation of one component leaves alone
laterVars == <<objectVars, pagerVars, extractVars, adapterVars, provnVars>>

(***************************************************************************)
(* Option<T>: None, or Some(v).                                            *)
(***************************************************************************)
None == <<>>
Some(v) == <<v>>
IsSome(o) == Len(o) = 1
Unwrap(o) == o[1]

(***************************************************************************)
(* String: a sequence of characters.                                       *)
(***************************************************************************)
NsE == <<"h","t","t","p",":","/","/","e","/">>          \* http://e/
NsH == <<"h","t","t","p",":","/","/","h","/">>          \* http://h/
HTTP == <<"h","t","t","p">>
XSD == <<"h","t","t","p",":","/","/","w","w","w",".","w","3",".","o","r","g","/","2","0","0","1","/","X","M","L","S","c","h","e","m","a","#">>

\* str::starts_with, str::ends_with, str::contains, str::find
StartsWith(s, p) == Len(s) >= Len(p) /\ SubSeq(s, 1, Len(p)) = p
EndsWith(s, p) == Len(s) >= Len(p) /\ SubSeq(s, Len(s) - Len(p) + 1, Len(s)) = p
Contains(s, ch) == \E i \in 1..Len(s) : s[i] = ch
\* 1-based position of the first ch, 0 when there is none
Find(s, ch) ==
    IF Contains(s, ch)
    THEN CHOOSE i \in 1..Len(s) : s[i] = ch /\ \A j \in 1..(i - 1) : s[j] # ch
    ELSE 0

(***************************************************************************)
(* HashMap<String, String>: its entries <<key, value>> in the order its    *)
(* iterator visits them; no key occurs twice.                              *)
(***************************************************************************)
HashMap_new == <<>>
Keys(m) == {m[i][1] : i \in 1..Len(m)}
\* HashMap::get
Lookup(m, k) == m[CHOOSE i \in 1..Len(m) : m[i][1] = k][2]
Get(m, k) == IF k \in Keys(m) THEN Some(Lookup(m, k)) ELSE None
\* HashMap::insert
Insert(m, k, v) ==
    IF k \in Keys(m)
    THEN [i \in 1..Len(m) |-> IF m[i][1] = k THEN <<k, v>> ELSE m[i]]
    ELSE Append(m, <<k, v>>)

(***************************************************************************)
(* Lexical tokens of the RDF dialects.  "#" stands for a comment running   *)
(* to the end of its line.                                                 *)
(***************************************************************************)
IriRefs == {"<a>", "<b>", "<c>", "<p>", "<q>", "<g>", "<ns>"}
PNameNs == {"ex:"}
PNameLn == {"ex:c"}
Literals == {"\"v\""}

\* The IRI an IRIREF token denotes.
IriOf(tok) ==
    CASE tok = "<a>" -> NsE \o <<"a">>
      [] tok = "<b>" -> NsE \o <<"b">>
      [] tok = "<c>" -> NsE \o <<"c">>
      [] tok = "<p>" -> NsE \o <<"p">>
      [] tok = "<q>" -> NsE \o <<"q">>
      [] tok = "<g>" -> NsE \o <<"g">>
      [] tok = "<ns>" -> NsE \o <<"n","/">>

\* Prefix name and local part of a prefixed-name token.
PrefixOf(tok) == "ex:"
LocalOf(tok) == <<"c">>

(***************************************************************************)
(* The physical lines a document is made of.                               *)
(***************************************************************************)
LPrefix == <<"@prefix", "ex:", "<ns>", ".">>
LTriple == <<"<a>", "<p>", "<b>", ".">>
LPName == <<"ex:c", "<p>", "\"v\"", ".">>
LOpen == <<"<a>", "<q>", "<b>", ";">>
LCont == <<"<q>", "<c>", ".">>
LTrail == <<"<c>", "<p>", "<b>", ".", "#">>
LComment == <<"#">>
LBlank == <<>>
LGraph == <<"<g>", "{">>
LClose == <<"}">>
LBlock == <<"<g>", "{", "<a>", "<p>", "<b>", "}">>
LQuad == <<"<a>", "<p>", "<b>", "<g>", ".">>
LJunk == <<"<a>", "<p>", "<b>", ".", "<c>">>

Formats == {"Turtle", "TriG", "NTriples", "NQuads"}

LinesOf(fmt) ==
    CASE fmt = "Turtle" ->
            {LPrefix, LTriple, LPName, LOpen, LCont, LTrail, LComment, LBlank}
      [] fmt = "TriG" ->
            {LPrefix, LTriple, LPName, LOpen, LCont, LTrail, LComment, LBlank,
             LGraph, LClose, LBlock}
      [] fmt = "NTriples" ->
            {LTriple, LPName, LCont, LTrail, LComment, LBlank, LJunk}
      [] fmt = "NQuads" ->
            {LTriple, LPName, LCont, LTrail, LComment, LBlank, LQuad, LJunk}

Documents(fmt) == UNION {[1..n -> LinesOf(fmt)] : n \in 0..MaxLines}

(***************************************************************************)
(* What the recovery engine asks of a line of text.                        *)
(***************************************************************************)
\* trimmed.is_empty() || trimmed.starts_with('#')
IsBlankOrComment(line) == line = <<>> \/ line[1] = "#"
\* trimmed.starts_with("@prefix")
StartsWithAtPrefix(line) == line # <<>> /\ line[1] = "@prefix"
\* trimmed.ends_with('.')
EndsWithDot(line) == line # <<>> /\ line[Len(line)] = "."
\* trimmed.ends_with('}')
EndsWithBrace(line) == line # <<>> /\ line[Len(line)] = "}"
\* trimmed.chars().filter(|&c| c == ch).count()
CountOf(line, ch) == Cardinality({i \in 1..Len(line) : line[i] = ch})

(***************************************************************************)
(* OwnedTriple and the conversions of the format adapter.                  *)
(***************************************************************************)
\* declared: the prefixes in scope, prefix token -> namespace IRI
IsIri(tok, declared) ==
    tok \in IriRefs \/ (tok \in PNameLn /\ PrefixOf(tok) \in DOMAIN declared)
IriValue(tok, declared) ==
    IF tok \in IriRefs THEN IriOf(tok) ELSE declared[PrefixOf(tok)] \o LocalOf(tok)
IsObject(tok, declared) == IsIri(tok, declared) \/ tok \in Literals
LiteralValue(tok) == <<"v">>

\* the terms of the RDF library (oxrdf): NamedNode, BlankNode, Literal and
\* the embedded triple of RDF-star
NamedNode(iri) ==
    [term |-> "NamedNode", value |-> iri, language |-> None, datatype |-> None,
     triple |-> None]
BlankNode(id) ==
    [term |-> "BlankNode", value |-> id, language |-> None, datatype |-> None,
     triple |-> None]
XsdString == XSD \o <<"s","t","r","i","n","g">>
RdfLangString == <<"h","t","t","p",":","/","/","w","w","w",".","w","3",".","o","r","g","/","1","9","9","9","/","0","2","/","2","2","-","r","d","f","-","s","y","n","t","a","x","-","n","s","#","l","a","n","g","S","t","r","i","n","g">>
\* Literal::new_simple_literal, new_language_tagged_literal, new_typed_literal
SimpleLiteral(value) ==
    [term |-> "Literal", value |-> value, language |-> None,
     datatype |-> Some(XsdString), triple |-> None]
LanguageTaggedLiteral(value, language) ==
    [term |-> "Literal", value |-> value, language |-> Some(language),
     datatype |-> Some(RdfLangString), triple |-> None]
TypedLiteralTerm(value, datatype) ==
    [term |-> "Literal", value |-> value, language |-> None,
     datatype |-> Some(datatype), triple |-> None]
Triple(s, p, o) == [subject |-> s, predicate |-> p, object |-> o]
TripleTerm(t) ==
    [term |-> "Triple", value |-> <<>>, language |-> None, datatype |-> None,
     triple |-> Some(t)]
DefaultGraph ==
    [term |-> "DefaultGraph", value |-> <<>>, language |-> None, datatype |-> None,
     triple |-> None]
Quad(s, p, o, g) == [subject |-> s, predicate |-> p, object |-> o, graph_name |-> g]

\* what the library's parser makes of the tokens of a statement
TermOf(tok, declared) ==
    IF tok \in Literals THEN SimpleLiteral(LiteralValue(tok))
    ELSE NamedNode(IriValue(tok, declared))
TripleOf(s, p, o, declared) ==
    Triple(TermOf(s, declared), TermOf(p, declared), TermOf(o, declared))
QuadOf(s, p, o, g, declared) ==
    Quad(TermOf(s, declared), TermOf(p, declared), TermOf(o, declared),
         IF IsSome(g) THEN NamedNode(Unwrap(g)) ELSE DefaultGraph)

\* format_embedded_triple
format_embedded_triple(t) ==
    t.subject_value \o <<" ">> \o t.predicate \o <<" ">> \o t.object_value

\* triple_to_owned that copies the datatype of a language-tagged literal
RECURSIVE triple_to_owned_keeps_lang_datatype(_)
triple_to_owned_keeps_lang_datatype(t) ==
    LET o == t.object
        embedded == IF o.term = "Triple"
                    THEN Some(triple_to_owned_keeps_lang_datatype(Unwrap(o.triple)))
                    ELSE None
    IN  [subject_type    |-> t.subject.term,
         subject_value   |-> t.subject.value,
         predicate       |-> t.predicate.value,
         object_type     |-> o.term,
         object_value    |-> IF o.term = "Triple"
                             THEN <<"<", "<", " ">>
                                      \o format_embedded_triple(Unwrap(embedded))
                                      \o <<" ", ">", ">">>
                             ELSE o.value,
         object_datatype |-> IF o.term = "Literal" /\ o.datatype # Some(XsdString)
                             THEN o.datatype ELSE None,
         object_language |-> IF o.term = "Literal" THEN o.language ELSE None,
         graph           |-> None,
         subject_triple  |-> None,
         object_triple   |-> embedded]

RECURSIVE triple_to_owned(_)
triple_to_owned(t) ==
    LET o == t.object
        owned_embedded == IF o.term = "Triple"
                          THEN Some(triple_to_owned(Unwrap(o.triple)))
                          ELSE None
    IN  [subject_type    |-> t.subject.term,     \* NamedNode or BlankNode
         subject_value   |-> t.subject.value,
         predicate       |-> t.predicate.value,
         object_type     |-> o.term,
         object_value    |-> IF o.term = "Triple"
                             THEN <<"<", "<", " ">>
                                      \o format_embedded_triple(Unwrap(owned_embedded))
                                      \o <<" ", ">", ">">>
                             ELSE o.value,
         object_datatype |-> IF o.term = "Literal" /\ o.language = None
                                                  /\ o.datatype # Some(XsdString)
                             THEN o.datatype ELSE None,
         object_language |-> IF o.term = "Literal" THEN o.language ELSE None,
         graph           |-> None,
         subject_triple  |-> None,
         object_triple   |-> owned_embedded]

quad_to_owned(q) ==
    LET owned_triple == triple_to_owned(Triple(q.subject, q.predicate, q.object))
    IN  IF q.graph_name.term \in {"NamedNode", "BlankNode"}
        THEN [owned_triple EXCEPT !.graph = Some(q.graph_name.value)]
        ELSE owned_triple

(***************************************************************************)
(* The grammar parsers of the external RDF syntax library, as the program  *)
(* sees them: an iterator of results which the program reads up to its     *)
(* first error.  Each parser returns the triples it yielded before the     *)
(* first error and whether it reached the end of its input without one.    *)
(***************************************************************************)
\* The tokens of a line that are not comment.
RECURSIVE CommentAt(_, _)
CommentAt(line, i) ==
    IF i > Len(line) THEN i
    ELSE IF line[i] = "#" THEN i ELSE CommentAt(line, i + 1)
StripComment(line) == SubSeq(line, 1, CommentAt(line, 1) - 1)

RECURSIVE TokensOf(_)
TokensOf(text) ==
    IF text = <<>> THEN <<>>
    ELSE StripComment(Head(text)) \o TokensOf(Tail(text))

NoPrefixes == [k \in {} |-> <<>>]

\* The recognizer of Turtle and TriG documents: a machine driven by the
\* tokens, which yields a triple as soon as it has read the triple's object.
\*   statement ::= '@prefix' PNAME_NS IRIREF '.' | triples '.'
\*   block     ::= (label)? '{' (triples ('.' triples?)*)? '}'     (TriG only)
\*   triples   ::= subject verb object (';' (verb object)?)*
RecognizerStart ==
    [state |-> "Statement", in_block |-> FALSE, g |-> None, s |-> "", p |-> "",
     name |-> "", iri |-> "", declared |-> NoPrefixes, triples |-> <<>>]

EndOfTriples(st) ==
    [st EXCEPT !.state = IF st.in_block THEN "BlockStart" ELSE "Statement"]
CloseBlock(st) == [st EXCEPT !.state = "Statement", !.in_block = FALSE, !.g = None]
Failed(st) == [st EXCEPT !.state = "Error"]

RecognizerStep(st, tok, trig) ==
    LET iri == IsIri(tok, st.declared)
    IN  CASE st.state = "Statement" ->
                IF tok = "@prefix" THEN [st EXCEPT !.state = "PrefixName"]
                ELSE IF trig /\ tok = "{"
                     THEN [st EXCEPT !.state = "BlockStart", !.in_block = TRUE, !.g = None]
                ELSE IF iri
                     THEN [st EXCEPT !.state = IF trig THEN "SubjectOrGraph" ELSE "Verb",
                                     !.s = tok]
                ELSE Failed(st)
          [] st.state = "SubjectOrGraph" ->
                IF tok = "{"
                THEN [st EXCEPT !.state = "BlockStart", !.in_block = TRUE,
                                !.g = Some(IriValue(st.s, st.declared))]
                ELSE IF iri THEN [st EXCEPT !.state = "Object", !.p = tok]
                ELSE Failed(st)
          [] st.state = "BlockStart" ->
                IF tok = "}" THEN CloseBlock(st)
                ELSE IF iri THEN [st EXCEPT !.state = "Verb", !.s = tok]
                ELSE Failed(st)
          [] st.state = "Verb" ->
                IF iri THEN [st EXCEPT !.state = "Object", !.p = tok] ELSE Failed(st)
          [] st.state = "Object" ->
                IF IsObject(tok, st.declared)
                THEN [st EXCEPT !.state = "ObjectEnd",
                                !.triples = Append(@, quad_to_owned(QuadOf(st.s, st.p, tok,
                                                                    st.g, st.declared)))]
                ELSE Failed(st)
          [] st.state \in {"ObjectEnd", "AfterSemi"} ->
                IF tok = ";" THEN [st EXCEPT !.state = "AfterSemi"]
                ELSE IF tok = "." THEN EndOfTriples(st)
                ELSE IF tok = "}" /\ st.in_block THEN CloseBlock(st)
                ELSE IF st.state = "AfterSemi" /\ iri
                     THEN [st EXCEPT !.state = "Object", !.p = tok]
                ELSE Failed(st)
          [] st.state = "PrefixName" ->
                IF tok \in PNameNs THEN [st EXCEPT !.state = "PrefixIri", !.name = tok]
                ELSE Failed(st)
          [] st.state = "PrefixIri" ->
                IF tok \in IriRefs THEN [st EXCEPT !.state = "PrefixDot", !.iri = tok]
                ELSE Failed(st)
          [] st.state = "PrefixDot" ->
                IF tok = "."
                THEN [st EXCEPT !.state = "Statement",
                                !.declared = [k \in DOMAIN st.declared \cup {st.name} |->
                                    IF k = st.name THEN IriOf(st.iri) ELSE st.declared[k]]]
                ELSE Failed(st)

RECURSIVE Recognize(_, _, _, _)
Recognize(toks, i, st, trig) ==
    IF i > Len(toks)
    THEN [ok |-> st.state = "Statement", triples |-> st.triples]
    ELSE LET n == RecognizerStep(st, toks[i], trig)
         IN  IF n.state = "Error" THEN [ok |-> FALSE, triples |-> n.triples]
             ELSE Recognize(toks, i + 1, n, trig)

\* TurtleParser::new().for_reader(text), read to its first error
TurtleParser(text) == Recognize(TokensOf(text), 1, RecognizerStart, FALSE)
\* TriGParser::new().for_reader(text), read to its first error
TriGParser(text) == Recognize(TokensOf(text), 1, RecognizerStart, TRUE)

\* One line of a line-oriented format: subject predicate object graph? '.'
\* The statement is yielded when its '.' is read; whatever follows it on the
\* line is an error the iterator reports as its next item.
LineStatement(line, quads) ==
    LET toks == StripComment(line)
        triple == /\ Len(toks) >= 4
                  /\ toks[1] \in IriRefs /\ toks[2] \in IriRefs
                  /\ toks[3] \in IriRefs \cup Literals /\ toks[4] = "."
        quad == /\ quads /\ Len(toks) >= 5
                /\ toks[1] \in IriRefs /\ toks[2] \in IriRefs
                /\ toks[3] \in IriRefs \cup Literals
                /\ toks[4] \in IriRefs /\ toks[5] = "."
    IN  IF toks = <<>> THEN [ok |-> TRUE, triples |-> <<>>]
        ELSE IF triple
             THEN [ok |-> Len(toks) = 4,
                   triples |-> <<triple_to_owned(TripleOf(toks[1], toks[2], toks[3],
                                                          NoPrefixes))>>]
        ELSE IF quad
             THEN [ok |-> Len(toks) = 5,
                   triples |-> <<quad_to_owned(QuadOf(toks[1], toks[2], toks[3],
                                                      Some(IriOf(toks[4])), NoPrefixes))>>]
        ELSE [ok |-> FALSE, triples |-> <<>>]

RECURSIVE LineDocument(_, _, _)
LineDocument(text, quads, acc) ==
    IF text = <<>> THEN [ok |-> TRUE, triples |-> acc]
    ELSE LET r == LineStatement(Head(text), quads)
         IN  IF r.ok THEN LineDocument(Tail(text), quads, acc \o r.triples)
             ELSE [ok |-> FALSE, triples |-> acc \o r.triples]

\* NTriplesParser::new().for_reader(text), read to its first error
NTriplesParser(text) == LineDocument(text, FALSE, <<>>)
\* NQuadsParser::new().for_reader(text), read to its first error
NQuadsParser(text) == LineDocument(text, TRUE, <<>>)

GrammarParser(fmt, text) ==
    CASE fmt = "Turtle" -> TurtleParser(text)
      [] fmt = "TriG" -> TriGParser(text)
      [] fmt = "NTriples" -> NTriplesParser(text)
      [] fmt = "NQuads" -> NQuadsParser(text)


(***************************************************************************)
(* ParseResult and the strict branches of parse_*_robust.                  *)
(***************************************************************************)
ParseResult_new == [triples |-> <<>>, prefixes |-> HashMap_new, errors |-> <<>>]
ParseError(line_number) == [line |-> line_number, position |-> 1]

Pending == [tag |-> "Pending"]
Err == [tag |-> "Err"]
Ok(value) == [tag |-> "Ok", value |-> value]

\* continue_on_error = false: push every Ok item, return Err at the first Err item
parse_strict_keeps_partial(fmt, text) ==
    Ok([ParseResult_new EXCEPT !.triples = GrammarParser(fmt, text).triples])
parse_strict(fmt, text) ==
    LET r == GrammarParser(fmt, text)
    IN  IF r.ok THEN Ok([ParseResult_new EXCEPT !.triples = r.triples]) ELSE Err

(***************************************************************************)
(* Fragment parsers of the recovery engine.                                *)
(***************************************************************************)
\* format!("{prefix_declarations}\n{current_statement}")
full_input(declarations, statement) == declarations \o <<LBlank>> \o statement

\* the `?` in the loop drops the triples collected so far
try_parse_turtle_fragment_keeps_partial(input) ==
    [ok |-> TRUE, triples |-> TurtleParser(input).triples, prefixes |-> HashMap_new]
try_parse_turtle_fragment(input) ==
    LET r == TurtleParser(input)
    IN  IF r.ok THEN [ok |-> TRUE, triples |-> r.triples, prefixes |-> HashMap_new]
        ELSE [ok |-> FALSE]

try_parse_trig_fragment(input) ==
    LET r == TriGParser(input)
    IN  IF r.ok THEN [ok |-> TRUE, triples |-> r.triples, prefixes |-> HashMap_new]
        ELSE [ok |-> FALSE]

\* parser.next(): only the first item of the line's iterator is read.  It is
\* Ok when the parser yields a triple before any error, an error otherwise;
\* without any item: "No valid triple found in line"
try_parse_ntriples_line(line) ==
    LET r == NTriplesParser(<<line>>)
    IN  IF r.triples # <<>> THEN [ok |-> TRUE, triple |-> r.triples[1]]
        ELSE [ok |-> FALSE]

try_parse_nquads_line(line) ==
    LET r == NQuadsParser(<<line>>)
    IN  IF r.triples # <<>> THEN [ok |-> TRUE, triple |-> r.triples[1]]
        ELSE [ok |-> FALSE]

\* result.prefixes.insert(prefix, iri) for every parsed prefix
RECURSIVE MergePrefixes(_, _)
MergePrefixes(into, from) ==
    IF from = <<>> THEN into
    ELSE MergePrefixes(Insert(into, from[1][1], from[1][2]), Tail(from))

\* The match on the fragment's outcome at a statement boundary.
\* MergeFragment that numbers the lines from 0
MergeFragment_counts_from_zero(res, fr, line_number) ==
    IF fr.ok
    THEN [res EXCEPT !.triples = res.triples \o fr.triples,
                     !.prefixes = MergePrefixes(res.prefixes, fr.prefixes)]
    ELSE [res EXCEPT !.errors = Append(res.errors, ParseError(line_number - 1))]

MergeFragment(res, fr, line_number) ==
    IF fr.ok
    THEN [res EXCEPT !.triples = res.triples \o fr.triples,
                     !.prefixes = MergePrefixes(res.prefixes, fr.prefixes)]
    ELSE [res EXCEPT !.errors = Append(res.errors, ParseError(line_number))]

\* The match on one line of a line-oriented format.
ErrorLine(line_number) == line_number
MergeLine(res, r, line_number) ==
    IF r.ok
    THEN [res EXCEPT !.triples = Append(res.triples, r.triple)]
    ELSE [res EXCEPT !.errors = Append(res.errors, ParseError(ErrorLine(line_number)))]

(***************************************************************************)
(* parse_robust: one call, from its arguments to its return.               *)
(***************************************************************************)
FilterIdle ==
    /\ subject_filter = None /\ predicate_filter = None /\ object_filter = None
    /\ triples = <<>> /\ prefixes = HashMap_new /\ filtered = <<>> /\ fpc = "idle"
TermIdle ==
    /\ uri = <<>> /\ term_prefixes = HashMap_new /\ compact_text = None
    /\ expanded_text = None /\ reexpanded = None /\ tpc = "idle"
RenderIdle ==
    /\ should_expand = FALSE /\ colors = FALSE /\ terminal_width = 0
    /\ graph_keys = <<>> /\ graph_idx = 0 /\ triple_idx = 0
    /\ current_subject = None /\ output = <<>> /\ rpc = "idle"
ObjectIdle ==
    /\ literal = <<>> /\ literal_prefixes = <<>> /\ literal_colors = FALSE
    /\ compact_object = <<>> /\ expanded_object = <<>> /\ opc = "idle"
PagerIdle ==
    /\ no_pager_explicit = FALSE /\ use_pager = FALSE /\ auto_pager = FALSE
    /\ auto_pager_threshold = 0 /\ terminal_height = 0 /\ estimated_lines = 0
    /\ paging = <<>> /\ ppc = "idle"
ExtractIdle ==
    /\ content = <<>> /\ content_idx = 0 /\ extracted = <<>> /\ xpc = "idle"
AdapterIdle ==
    /\ adapter_input = <<>> /\ owned = <<>> /\ apc = "idle"
ProvnIdle ==
    /\ provn_input = <<>> /\ lines_buffer = <<>> /\ provn_prefixes = <<>>
    /\ provn_idx = 0 /\ provn_triples = <<>> /\ provn_ret = <<>> /\ vpc = "idle"
LaterIdle == ObjectIdle /\ PagerIdle /\ ExtractIdle /\ AdapterIdle /\ ProvnIdle
ParseIdle ==
    /\ format = "Turtle" /\ continue_on_error = FALSE /\ lines = <<>> /\ pc = "idle"
    /\ line_num = 0 /\ prefix_declarations = <<>> /\ current_statement = <<>>
    /\ brace_depth = 0 /\ result = ParseResult_new /\ ret = Pending

InitParse ==
    /\ FilterIdle /\ TermIdle /\ RenderIdle /\ LaterIdle
    /\ format \in Formats
    /\ continue_on_error \in BOOLEAN
    /\ lines \in Documents(format)
    /\ pc = "call"
    /\ line_num = 0
    /\ prefix_declarations = <<>>
    /\ current_statement = <<>>
    /\ brace_depth = 0
    /\ result = ParseResult_new
    /\ ret = Pending

\* parse_*_robust with continue_on_error = false
strict_parse ==
    /\ pc = "call" /\ ~continue_on_error
    /\ ret' = parse_strict(format, lines)
    /\ pc' = "returned"
    /\ UNCHANGED <<format, continue_on_error, lines, line_num,
                   prefix_declarations, current_statement, brace_depth, result>>
    /\ UNCHANGED <<filterVars, termVars, renderVars, laterVars>>

\* parse_*_line_by_line up to its second pass: the first pass over the lines
\* collects the @prefix lines (Turtle and TriG only)
first_pass ==
    /\ pc = "call" /\ continue_on_error
    /\ prefix_declarations' =
          IF format \in {"Turtle", "TriG"}
          THEN SelectSeq(lines, StartsWithAtPrefix) ELSE <<>>
    /\ pc' = "loop"
    /\ UNCHANGED <<format, continue_on_error, lines, line_num,
                   current_statement, brace_depth, result, ret>>
    /\ UNCHANGED <<filterVars, termVars, renderVars, laterVars>>

\* one iteration of the second pass of parse_turtle_line_by_line
turtle_line ==
    /\ pc = "loop" /\ format = "Turtle" /\ line_num < Len(lines)
    /\ LET line == lines[line_num + 1]
           line_number == line_num + 1
           statement == Append(current_statement, line)
       IN  IF IsBlankOrComment(line) \/ StartsWithAtPrefix(line)
           THEN UNCHANGED <<current_statement, result>>
           ELSE IF EndsWithDot(line)
           THEN /\ result' = MergeFragment(result,
                        try_parse_turtle_fragment(full_input(prefix_declarations, statement)),
                        line_number)
                /\ current_statement' = <<>>
           ELSE /\ current_statement' = statement
                /\ UNCHANGED result
    /\ line_num' = line_num + 1
    /\ UNCHANGED <<format, continue_on_error, lines, pc, prefix_declarations,
                   brace_depth, ret>>
    /\ UNCHANGED <<filterVars, termVars, renderVars, laterVars>>

\* after the loop of parse_turtle_line_by_line: the remaining statement
turtle_rest ==
    /\ pc = "loop" /\ format = "Turtle" /\ line_num = Len(lines)
    /\ LET fr == try_parse_turtle_fragment(full_input(prefix_declarations, current_statement))
           final == IF current_statement # <<>> /\ ~fr.ok
                    THEN [result EXCEPT !.errors = Append(@, ParseError(Len(lines)))]
                    ELSE result
       IN  /\ result' = final
           /\ ret' = Ok(final)
    /\ pc' = "returned"
    /\ UNCHANGED <<format, continue_on_error, lines, line_num, prefix_declarations,
                   current_statement, brace_depth>>
    /\ UNCHANGED <<filterVars, termVars, renderVars, laterVars>>

\* one iteration of the second pass of parse_trig_line_by_line
trig_line ==
    /\ pc = "loop" /\ format = "TriG" /\ line_num < Len(lines)
    /\ LET line == lines[line_num + 1]
           line_number == line_num + 1
           statement == Append(current_statement, line)
           depth == brace_depth + CountOf(line, "{") - CountOf(line, "}")
       IN  IF IsBlankOrComment(line) \/ StartsWithAtPrefix(line)
           THEN UNCHANGED <<current_statement, brace_depth, result>>
           ELSE /\ brace_depth' = depth
                /\ IF EndsWithDot(line) \/ (EndsWithBrace(line) /\ depth = 0)
                   THEN /\ result' = MergeFragment(result,
                               try_parse_trig_fragment(full_input(prefix_declarations, statement)),
                               line_number)
                        /\ current_statement' = <<>>
                   ELSE /\ current_statement' = statement
                        /\ UNCHANGED result
    /\ line_num' = line_num + 1
    /\ UNCHANGED <<format, continue_on_error, lines, pc, prefix_declarations, ret>>
    /\ UNCHANGED <<filterVars, termVars, renderVars, laterVars>>

\* after the loop of parse_trig_line_by_line: the remaining statement
trig_rest ==
    /\ pc = "loop" /\ format = "TriG" /\ line_num = Len(lines)
    /\ LET fr == try_parse_trig_fragment(full_input(prefix_declarations, current_statement))
           final == IF current_statement # <<>> /\ ~fr.ok
                    THEN [result EXCEPT !.errors = Append(@, ParseError(Len(lines)))]
                    ELSE result
       IN  /\ result' = final
           /\ ret' = Ok(final)
    /\ pc' = "returned"
    /\ UNCHANGED <<format, continue_on_error, lines, line_num, prefix_declarations,
                   current_statement, brace_depth>>
    /\ UNCHANGED <<filterVars, termVars, renderVars, laterVars>>

\* one iteration of the loop of parse_ntriples_line_by_line
ntriples_line ==
    /\ pc = "loop" /\ format = "NTriples" /\ line_num < Len(lines)
    /\ LET line == lines[line_num + 1]
           line_number == line_num + 1
       IN  IF IsBlankOrComment(line)
           THEN UNCHANGED result
           ELSE result' = MergeLine(result, try_parse_ntriples_line(line), line_number)
    /\ line_num' = line_num + 1
    /\ UNCHANGED <<format, continue_on_error, lines, pc, prefix_declarations,
                   current_statement, brace_depth, ret>>
    /\ UNCHANGED <<filterVars, termVars, renderVars, laterVars>>

\* one iteration of the loop of parse_nquads_line_by_line
nquads_line ==
    /\ pc = "loop" /\ format = "NQuads" /\ line_num < Len(lines)
    /\ LET line == lines[line_num + 1]
           line_number == line_num + 1
       IN  IF IsBlankOrComment(line)
           THEN UNCHANGED result
           ELSE result' = MergeLine(result, try_parse_nquads_line(line), line_number)
    /\ line_num' = line_num + 1
    /\ UNCHANGED <<format, continue_on_error, lines, pc, prefix_declarations,
                   current_statement, brace_depth, ret>>
    /\ UNCHANGED <<filterVars, termVars, renderVars, laterVars>>

\* Ok(result) at the end of parse_ntriples_line_by_line and parse_nquads_line_by_line
line_format_return ==
    /\ pc = "loop" /\ format \in {"NTriples", "NQuads"} /\ line_num = Len(lines)
    /\ ret' = Ok(result)
    /\ pc' = "returned"
    /\ UNCHANGED <<format, continue_on_error, lines, line_num, prefix_declarations,
                   current_statement, brace_depth, result>>
    /\ UNCHANGED <<filterVars, termVars, renderVars, laterVars>>

NextParse ==
    \/ strict_parse
    \/ first_pass
    \/ turtle_line
    \/ turtle_rest
    \/ trig_line
    \/ trig_rest
    \/ ntriples_line
    \/ nquads_line
    \/ line_format_return

SpecParse == InitParse /\ [][NextParse]_vars

(***************************************************************************)
(* Claims about parse_robust, checked under SpecParse.                     *)
(***************************************************************************)
Returned == pc = "returned"
BlockFormat == format \in {"Turtle", "TriG"}
LineFormat == format \in {"NTriples", "NQuads"}
\* every statement of the document is well-formed
WellFormed == GrammarParser(format, lines).ok

\* C1: for a document in which every statement is well-formed, the lenient
\* parse returns the triple sequence of the strict parse and records no error.
C1_LenientEqualsStrict ==
    (Returned /\ continue_on_error /\ WellFormed) =>
        /\ ret.tag = "Ok"
        /\ ret.value.triples = GrammarParser(format, lines).triples
        /\ ret.value.errors = <<>>

\* The lines of a line-oriented document that are parsed, by outcome.
ParsedLines == {i \in 1..Len(lines) : ~IsBlankOrComment(lines[i])}
GoodLines == {i \in ParsedLines : LineStatement(lines[i], format = "NQuads").ok}
BadLines == ParsedLines \ GoodLines
RankIn(S, i) == Cardinality({j \in S : j <= i})

\* C2: lenient parsing of N-Triples and N-Quads parses every non-blank,
\* non-comment line on its own: one triple per well-formed line in the order
\* of the lines, one ParseError per malformed line carrying its 1-based number.
C2_LineFormatsPerLine ==
    (Returned /\ continue_on_error /\ LineFormat) =>
        /\ ret.tag = "Ok"
        /\ Len(ret.value.triples) = Cardinality(GoodLines)
        /\ Len(ret.value.errors) = Cardinality(BadLines)
        /\ \A i \in GoodLines :
              ret.value.triples[RankIn(GoodLines, i)] =
                  LineStatement(lines[i], format = "NQuads").triples[1]
        /\ \A i \in BadLines : ret.value.errors[RankIn(BadLines, i)].line = i

\* C3: in strict mode a document with a malformed statement makes parse_robust
\* return an error and no ParseResult: neither the triples parsed before the
\* error nor anything after it is delivered.
C3_StrictAborts ==
    (Returned /\ ~continue_on_error /\ ~WellFormed) => ret = Err

C3_Witness ==
    /\ Returned /\ ~continue_on_error /\ ~WellFormed
    /\ GrammarParser(format, lines).triples # <<>>
    /\ ret = Err

\* The fragment a step of the lenient parse hands to the strict parser, if any.
AttemptsFragment ==
    /\ pc = "loop" /\ BlockFormat
    /\ \/ /\ line_num < Len(lines)
          /\ ~IsBlankOrComment(lines[line_num + 1])
          /\ ~StartsWithAtPrefix(lines[line_num + 1])
          /\ current_statement' = <<>>
       \/ line_num = Len(lines) /\ current_statement # <<>>
AttemptedFragment ==
    full_input(prefix_declarations,
               IF line_num < Len(lines)
               THEN Append(current_statement, lines[line_num + 1])
               ELSE current_statement)

\* C4: a lenient parse always returns a result, and that result holds the
\* triples of every statement that parsed and one ParseError for every
\* statement that failed.
C4_LenientAccountsForEveryStatement ==
    /\ [](Returned /\ continue_on_error => ret.tag = "Ok")
    /\ [][AttemptsFragment =>
            LET raw == GrammarParser(format, AttemptedFragment)
            IN  IF raw.ok
                THEN /\ result'.triples = result.triples \o raw.triples
                     /\ result'.errors = result.errors
                ELSE /\ result'.triples = result.triples
                     /\ Len(result'.errors) = Len(result.errors) + 1]_vars

\* C5: a fragment contributes all of its triples or none; when the parser
\* fails inside a fragment none of the triples it had produced from that
\* fragment reaches the result.
C5_FragmentAllOrNothing ==
    [][pc = "loop" /\ BlockFormat =>
            LET raw == GrammarParser(format, AttemptedFragment)
            IN  \/ result'.triples = result.triples
                \/ /\ raw.ok
                   /\ result'.triples = result.triples \o raw.triples]_vars

C5_Witness ==
    /\ Returned /\ continue_on_error /\ format = "Turtle"
    /\ lines = <<LTrail, LPName>>
    /\ ~TurtleParser(lines).ok
    /\ Len(TurtleParser(lines).triples) = 1
    /\ ret.value.triples = <<>>
    /\ ret.value.errors = <<ParseError(2)>>

(***************************************************************************)
(* TripleFilter (src/src/filter.rs).                                       *)
(***************************************************************************)
\* impl Clone for OwnedTriple
clone_forgets_graph(t) == [t EXCEPT !.graph = None]
clone(t) ==
    [subject_type    |-> t.subject_type,
     subject_value   |-> t.subject_value,
     predicate       |-> t.predicate,
     object_type     |-> t.object_type,
     object_value    |-> t.object_value,
     object_datatype |-> t.object_datatype,
     object_language |-> t.object_language,
     graph           |-> t.graph]

\* <[T]>::to_vec
to_vec(ts) == [i \in 1..Len(ts) |-> clone(ts[i])]

is_empty(sf, pf, of) == sf = None /\ pf = None /\ of = None

expand_prefixed_name_drops_unknown_prefix(name, map) ==
    IF Find(name, ":") > 0 /\ ~StartsWith(name, HTTP)
    THEN SubSeq(name, Find(name, ":") + 1, Len(name))
    ELSE name
expand_prefixed_name(name, map) ==
    IF StartsWith(name, <<"<">>) /\ EndsWith(name, <<">">>)
    THEN SubSeq(name, 2, Len(name) - 1)
    ELSE IF StartsWith(name, HTTP) THEN name
    ELSE LET colon_pos == Find(name, ":")
             prefix == SubSeq(name, 1, colon_pos - 1)
             local_name == SubSeq(name, colon_pos + 1, Len(name))
         IN  IF colon_pos > 0 /\ prefix \in Keys(map)
             THEN Lookup(map, prefix) \o local_name
             ELSE name

matches_subject(triple, filter, map) ==
    LET expanded_filter == expand_prefixed_name(filter, map)
    IN  IF triple.subject_value = expanded_filter THEN TRUE
        ELSE IF Contains(filter, ":") /\ ~StartsWith(filter, HTTP)
             THEN triple.subject_value = expanded_filter
        ELSE FALSE

matches_predicate(triple, filter, map) ==
    LET expanded_filter == expand_prefixed_name(filter, map)
    IN  IF triple.predicate = expanded_filter THEN TRUE
        ELSE IF Contains(filter, ":") /\ ~StartsWith(filter, HTTP)
             THEN triple.predicate = expanded_filter
        ELSE FALSE

matches_object(triple, filter, map) ==
    IF triple.object_value = filter THEN TRUE
    ELSE LET expanded_filter == expand_prefixed_name(filter, map)
         IN  IF triple.object_value = expanded_filter THEN TRUE
             ELSE IF Contains(filter, ":") /\ ~StartsWith(filter, HTTP)
                  THEN triple.object_value = expanded_filter
             ELSE FALSE

matches_triple_any(sf, pf, of, triple, map) ==
    \/ IsSome(sf) /\ matches_subject(triple, Unwrap(sf), map)
    \/ IsSome(pf) /\ matches_predicate(triple, Unwrap(pf), map)
    \/ IsSome(of) /\ matches_object(triple, Unwrap(of), map)
matches_triple(sf, pf, of, triple, map) ==
    IF IsSome(sf) /\ ~matches_subject(triple, Unwrap(sf), map) THEN FALSE
    ELSE IF IsSome(pf) /\ ~matches_predicate(triple, Unwrap(pf), map) THEN FALSE
    ELSE IF IsSome(of) /\ ~matches_object(triple, Unwrap(of), map) THEN FALSE
    ELSE TRUE

filter_triples(sf, pf, of, ts, map) ==
    IF is_empty(sf, pf, of) THEN to_vec(ts)
    ELSE LET keep(t) == matches_triple(sf, pf, of, t, map)
         IN  to_vec(SelectSeq(ts, keep))

(***************************************************************************)
(* One call of filter_triples.                                             *)
(***************************************************************************)
MaxFilterTriples == 2

IriA == NsE \o <<"a">>
IriB == NsE \o <<"b">>
IriP == NsE \o <<"p">>
IriQ == NsE \o <<"q">>
IriG == NsE \o <<"g">>
UrnA == <<"u","r","n",":","a">>
ValV == <<"v">>

NamedNodeTriple(s, p, o, g) ==
    [subject_type |-> "NamedNode", subject_value |-> s, predicate |-> p,
     object_type |-> "NamedNode", object_value |-> o,
     object_datatype |-> None, object_language |-> None, graph |-> g]
LiteralTriple(s, p, o, g) ==
    [NamedNodeTriple(s, p, o, g) EXCEPT !.object_type = "Literal"]

FilterInputTriples ==
    {LiteralTriple(IriA, IriP, ValV, None),
     NamedNodeTriple(IriA, IriQ, IriB, None),
     LiteralTriple(IriB, IriP, ValV, None),
     NamedNodeTriple(UrnA, IriP, IriA, Some(IriG)),
     NamedNodeTriple(IriB, IriP, NsH \o <<"b">>, None)}

PrefixEx == <<"e","x">>
SubjectPatterns ==
    {None,
     Some(PrefixEx \o <<":","a">>),               \* ex:a
     Some(<<"<">> \o IriA \o <<">">>),            \* <http://e/a>
     Some(UrnA),                                  \* urn:a
     Some(<<"u","n",":","b">>)}                   \* un:b
PredicatePatterns ==
    {None,
     Some(IriP),                                  \* http://e/p
     Some(PrefixEx \o <<":","q">>)}               \* ex:q
ObjectPatterns ==
    {None,
     Some(ValV),                                  \* v
     Some(PrefixEx \o <<":","b">>),               \* ex:b
     Some(<<"<">> \o IriB \o <<">">>),            \* <http://e/b>
     Some(HTTP \o <<":","b">>)}                   \* http:b
FilterPrefixMaps == {HashMap_new, <<<<PrefixEx, NsE>>>>, <<<<HTTP, NsH>>>>}

TripleSeqs(S, n) == UNION {[1..k -> S] : k \in 0..n}

InitFilter ==
    /\ ParseIdle /\ TermIdle /\ RenderIdle /\ LaterIdle
    /\ subject_filter \in SubjectPatterns
    /\ predicate_filter \in PredicatePatterns
    /\ object_filter \in ObjectPatterns
    /\ triples \in TripleSeqs(FilterInputTriples, MaxFilterTriples)
    /\ prefixes \in FilterPrefixMaps
    /\ filtered = <<>>
    /\ fpc = "call"

filter_call ==
    /\ fpc = "call"
    /\ filtered' = filter_triples(subject_filter, predicate_filter, object_filter,
                                  triples, prefixes)
    /\ fpc' = "returned"
    /\ UNCHANGED <<subject_filter, predicate_filter, object_filter, triples, prefixes>>
    /\ UNCHANGED <<parseVars, termVars, renderVars, laterVars>>

NextFilter == filter_call

SpecFilter == InitFilter /\ [][NextFilter]_vars


(***************************************************************************)
(* Claims about filter_triples, checked under SpecFilter.                  *)
(***************************************************************************)
FilterReturned == fpc = "returned"
NoPattern == subject_filter = None /\ predicate_filter = None /\ object_filter = None

\* C6: with no subject, predicate or object pattern filter_triples returns
\* the input sequence unchanged: same members, same order, same length.
C6_EmptyFilterIsIdentity ==
    (FilterReturned /\ NoPattern) => filtered = triples

C6_Witness ==
    /\ FilterReturned /\ NoPattern
    /\ Len(triples) = 2 /\ triples[1] # triples[2]
    /\ \E i \in 1..Len(triples) : triples[i].graph # None
    /\ prefixes # HashMap_new
    /\ filtered = triples

\* The target a pattern is compared with, stated from the pattern's shape.
PatternTarget(pattern) ==
    IF pattern[1] = "<" /\ pattern[Len(pattern)] = ">"
    THEN SubSeq(pattern, 2, Len(pattern) - 1)
    ELSE IF StartsWith(pattern, HTTP) THEN pattern
    ELSE IF \E k \in 1..Len(pattern) :
               /\ pattern[k] = ":"
               /\ \A j \in 1..(k - 1) : pattern[j] # ":"
               /\ SubSeq(pattern, 1, k - 1) \in Keys(prefixes)
         THEN LET k == CHOOSE k \in 1..Len(pattern) :
                          /\ pattern[k] = ":"
                          /\ \A j \in 1..(k - 1) : pattern[j] # ":"
              IN  Lookup(prefixes, SubSeq(pattern, 1, k - 1))
                      \o SubSeq(pattern, k + 1, Len(pattern))
         ELSE pattern
EveryPatternMatches(t) ==
    /\ IsSome(subject_filter) =>
           t.subject_value = PatternTarget(Unwrap(subject_filter))
    /\ IsSome(predicate_filter) =>
           t.predicate = PatternTarget(Unwrap(predicate_filter))
    /\ IsSome(object_filter) =>
           \/ t.object_value = Unwrap(object_filter)
           \/ t.object_value = PatternTarget(Unwrap(object_filter))

\* C7: filter_triples returns exactly the input triples for which every
\* supplied pattern matches (logical AND), in their original order; subject
\* and predicate match by string equality with the expanded pattern; the
\* input sequence is left unmodified.
C7_FilterIsConjunction ==
    /\ [](FilterReturned => filtered = SelectSeq(triples, EveryPatternMatches))
    /\ [][triples' = triples]_vars

C7_Witness ==
    /\ FilterReturned
    /\ IsSome(subject_filter) /\ IsSome(predicate_filter) /\ IsSome(object_filter)
    /\ Len(triples) = 2 /\ Len(filtered) = 1
    /\ filtered[1] = triples[2]
    /\ triples[1].subject_value = PatternTarget(Unwrap(subject_filter))
    /\ triples[1].predicate # PatternTarget(Unwrap(predicate_filter))

\* A pattern written prefix:local whose prefix the PrefixMap does not hold.
UnknownPrefix(pattern) ==
    /\ IsSome(pattern)
    /\ ~(Unwrap(pattern)[1] = "<" /\ Unwrap(pattern)[Len(Unwrap(pattern))] = ">")
    /\ ~StartsWith(Unwrap(pattern), HTTP)
    /\ Contains(Unwrap(pattern), ":")
    /\ \A k \in 1..Len(Unwrap(pattern)) :
           Unwrap(pattern)[k] = ":" /\ (\A j \in 1..(k - 1) : Unwrap(pattern)[j] # ":")
               => SubSeq(Unwrap(pattern), 1, k - 1) \notin Keys(prefixes)
SubjectIsText(t) == t.subject_value = Unwrap(subject_filter)

\* C8 (as stated): filter_triples returns normally for any patterns, and a
\* pattern prefix:local whose prefix is not in the PrefixMap yields zero
\* matching triples.
C8_UnknownPrefixYieldsNothing ==
    FilterReturned =>
        /\ \A i \in 1..Len(filtered) : filtered[i] \in FilterInputTriples
        /\ (UnknownPrefix(subject_filter) \/ UnknownPrefix(predicate_filter)
                \/ UnknownPrefix(object_filter)) => filtered = <<>>

\* C8 (amended): filter_triples returns normally for any patterns, and a
\* pattern prefix:local whose prefix is not in the PrefixMap is left
\* unexpanded and compared as written: it selects exactly the triples whose
\* field is string-equal to the pattern text, zero when no triple carries it.
C8_UnknownPrefixMatchesAsWritten ==
    FilterReturned =>
        /\ \A i \in 1..Len(filtered) : filtered[i] \in FilterInputTriples
        /\ UnknownPrefix(subject_filter) =>
               \A i \in 1..Len(filtered) :
                   filtered[i].subject_value = Unwrap(subject_filter)
        /\ UnknownPrefix(predicate_filter) =>
               \A i \in 1..Len(filtered) :
                   filtered[i].predicate = Unwrap(predicate_filter)
        /\ UnknownPrefix(object_filter) =>
               \A i \in 1..Len(filtered) :
                   filtered[i].object_value = Unwrap(object_filter)
        /\ (UnknownPrefix(subject_filter) /\ predicate_filter = None
                /\ object_filter = None) =>
               filtered = SelectSeq(triples, SubjectIsText)

C8_Witness ==
    /\ FilterReturned
    /\ UnknownPrefix(subject_filter)
    /\ predicate_filter = None /\ object_filter = None
    /\ Len(triples) = 2
    /\ triples[1].subject_value # Unwrap(subject_filter)
    /\ triples[2].subject_value = Unwrap(subject_filter)
    /\ filtered = <<triples[2]>>


(***************************************************************************)
(* Term formatting (src/src/utils.rs, src/src/formatter/writer.rs).        *)
(***************************************************************************)
\* resolve_uri_with_prefixes: the first entry the map's iterator visits whose
\* namespace the IRI starts with decides the prefixed form.
resolve_uri_with_prefixes(iri, map_opt) ==
    LET entries == IF IsSome(map_opt) THEN Unwrap(map_opt) ELSE <<>>
        hits == {i \in 1..Len(entries) : StartsWith(iri, entries[i][2])}
    IN  IF hits # {}
        THEN LET first == CHOOSE i \in hits : \A j \in hits : i <= j
                 local_part == SubSeq(iri, Len(entries[first][2]) + 1, Len(iri))
             IN  entries[first][1] \o <<":">> \o local_part
        ELSE <<"<">> \o iri \o <<">">>

\* format_subject
format_subject(triple, map_opt) ==
    IF triple.subject_type = "NamedNode"
    THEN resolve_uri_with_prefixes(triple.subject_value, map_opt)
    ELSE <<"_", ":">> \o triple.subject_value

(***************************************************************************)
(* A NamedNode IRI formatted in both modes, and its compact form expanded  *)
(* again by the filter's expand_prefixed_name.                             *)
(***************************************************************************)
MaxPrefixes == 2

TermPrefixEntries ==
    {<<PrefixEx, NsE>>,                           \* ex:   <http://e/>
     <<<<"h">>, NsH>>,                            \* h:    <http://h/>
     <<HTTP, NsH>>,                               \* http: <http://h/>
     <<<<>>, NsE>>}                               \* :     <http://e/>
TermPrefixMaps ==
    {m \in UNION {[1..n -> TermPrefixEntries] : n \in 0..MaxPrefixes} :
        \A i, j \in 1..Len(m) : i # j => m[i][1] # m[j][1]}
TermIris ==
    {IriA,                                        \* http://e/a
     NsE,                                         \* http://e/
     NsE \o <<"a", ":", "b">>,                    \* http://e/a:b
     NsH \o <<"b">>,                              \* http://h/b
     UrnA}                                        \* urn:a

SubjectOf(iri) == NamedNodeTriple(iri, IriP, IriB, None)

InitTerm ==
    /\ ParseIdle /\ FilterIdle /\ RenderIdle /\ LaterIdle
    /\ uri \in TermIris
    /\ term_prefixes \in TermPrefixMaps
    /\ compact_text = None /\ expanded_text = None /\ reexpanded = None
    /\ tpc = "call"

\* compact mode: format_subject(triple, Some(prefixes), colors)
format_compact ==
    /\ tpc = "call"
    /\ compact_text' = Some(format_subject(SubjectOf(uri), Some(term_prefixes)))
    /\ tpc' = "compact"
    /\ UNCHANGED <<uri, term_prefixes, expanded_text, reexpanded>>
    /\ UNCHANGED <<parseVars, filterVars, renderVars, laterVars>>

\* expanded mode: format_subject(triple, None, colors)
format_expanded ==
    /\ tpc = "compact"
    /\ expanded_text' = Some(format_subject(SubjectOf(uri), None))
    /\ tpc' = "expanded"
    /\ UNCHANGED <<uri, term_prefixes, compact_text, reexpanded>>
    /\ UNCHANGED <<parseVars, filterVars, renderVars, laterVars>>

\* the compact text handed to the filter's expand_prefixed_name
reexpand ==
    /\ tpc = "expanded"
    /\ reexpanded' = Some(expand_prefixed_name(Unwrap(compact_text), term_prefixes))
    /\ tpc' = "done"
    /\ UNCHANGED <<uri, term_prefixes, compact_text, expanded_text>>
    /\ UNCHANGED <<parseVars, filterVars, renderVars, laterVars>>

NextTerm == format_compact \/ format_expanded \/ reexpand

SpecTerm == InitTerm /\ [][NextTerm]_vars

(***************************************************************************)
(* Claims about term formatting, checked under SpecTerm.                   *)
(***************************************************************************)
DeclaredFor(iri) == {i \in 1..Len(term_prefixes) : StartsWith(iri, term_prefixes[i][2])}

\* C10: a NamedNode IRI that starts with the namespace of a declared prefix
\* renders prefix:local in compact mode and <iri> in expanded mode, and
\* expanding the compact text against the same PrefixMap with the filter's
\* prefixed-name expansion gives back the IRI.
C10_CompactFormRoundTrips ==
    (tpc = "done" /\ DeclaredFor(uri) # {}) =>
        /\ \E i \in DeclaredFor(uri) :
              compact_text = Some(term_prefixes[i][1] \o <<":">>
                  \o SubSeq(uri, Len(term_prefixes[i][2]) + 1, Len(uri)))
        /\ expanded_text = Some(<<"<">> \o uri \o <<">">>)
        /\ reexpanded = Some(uri)


(***************************************************************************)
(* Colours.  With colours on, a coloured text is wrapped in an ANSI escape *)
(* sequence (ESC [ ... m) and the reset sequence; "ESC" is the character   *)
(* \x1b.                                                                   *)
(***************************************************************************)
ESC == "ESC"
\* colored::Colorize::color(text, colour).to_string()
Paint(text, on) ==
    IF on THEN <<ESC, "[", "3", "m">> \o text \o <<ESC, "[", "0", "m">> ELSE text
\* ColorConfig::colorize(text, role)
colorize(text, on) == Paint(text, on)
\* ColorConfig::colorize_bold(text, role)
colorize_bold(text, on) ==
    IF on THEN <<ESC, "[", "1", ";", "3", "m">> \o text \o <<ESC, "[", "0", "m">>
    ELSE text

\* strip_ansi_codes: drop every ESC and what follows it up to and including
\* the next 'm'.
\* position i of text is an ESC or lies between an ESC and the first 'm'
\* after it, that 'm' included
in_escape(text, i) ==
    \E e \in 1..i :
        text[e] = ESC /\ \A j \in (e + 1)..(i - 1) : text[j] # "m"
strip_ansi_codes(text) ==
    LET indexed == [i \in 1..Len(text) |-> <<i, text[i]>>]
        outside(c) == ~in_escape(text, c[1])
        kept == SelectSeq(indexed, outside)
    IN  [k \in 1..Len(kept) |-> kept[k][2]]

(***************************************************************************)
(* format_predicate and format_object (src/src/formatter/writer.rs).       *)
(***************************************************************************)
NumericDatatypes ==
    {XSD \o <<"i","n","t","e","g","e","r">>, XSD \o <<"d","e","c","i","m","a","l">>, XSD \o <<"f","l","o","a","t">>, XSD \o <<"d","o","u","b","l","e">>}
BooleanDatatype == XSD \o <<"b","o","o","l","e","a","n">>
BasicDatatypes ==
    NumericDatatypes \cup
    {BooleanDatatype, XSD \o <<"s","t","r","i","n","g">>, XSD \o <<"d","a","t","e">>, XSD \o <<"t","i","m","e">>, XSD \o <<"d","a","t","e","T","i","m","e">>}

Quoted(text) == <<"\"">> \o text \o <<"\"">>

\* format_object that keeps every datatype in quotes in compact mode
format_object_quotes_numbers(triple, map_opt, on) ==
    IF triple.object_type = "NamedNode"
    THEN Paint(resolve_uri_with_prefixes(triple.object_value, map_opt), on)
    ELSE IF triple.object_type = "BlankNode"
    THEN Paint(<<"_", ":">> \o triple.object_value, on)
    ELSE IF IsSome(triple.object_language)
    THEN Paint(Quoted(triple.object_value) \o <<"@">> \o Unwrap(triple.object_language), on)
    ELSE IF IsSome(triple.object_datatype)
    THEN IF IsSome(map_opt) /\ Unwrap(triple.object_datatype) \in BasicDatatypes
         THEN Paint(Quoted(triple.object_value), on)
         ELSE Paint(Quoted(triple.object_value) \o <<"^", "^">>
                        \o resolve_uri_with_prefixes(Unwrap(triple.object_datatype), map_opt), on)
    ELSE Paint(Quoted(triple.object_value), on)

format_predicate(triple, map_opt, on) ==
    Paint(resolve_uri_with_prefixes(triple.predicate, map_opt), on)

format_object(triple, map_opt, on) ==
    IF triple.object_type = "NamedNode"
    THEN Paint(resolve_uri_with_prefixes(triple.object_value, map_opt), on)
    ELSE IF triple.object_type = "BlankNode"
    THEN Paint(<<"_", ":">> \o triple.object_value, on)
    ELSE IF IsSome(triple.object_language)
    THEN Paint(Quoted(triple.object_value) \o <<"@">> \o Unwrap(triple.object_language), on)
    ELSE IF IsSome(triple.object_datatype)
    THEN LET datatype == Unwrap(triple.object_datatype)
             is_compact_mode == IsSome(map_opt)
             is_basic_datatype == datatype \in BasicDatatypes
         IN  IF is_compact_mode /\ is_basic_datatype
             THEN IF datatype \in NumericDatatypes \/ datatype = BooleanDatatype
                  THEN Paint(triple.object_value, on)
                  ELSE Paint(Quoted(triple.object_value), on)
             ELSE Paint(Quoted(triple.object_value) \o <<"^", "^">>
                            \o resolve_uri_with_prefixes(datatype, map_opt), on)
    ELSE Paint(Quoted(triple.object_value), on)

(***************************************************************************)
(* The renderer (src/src/formatter/compact.rs, expanded.rs).  The output   *)
(* is the sequence of lines written; a line is a String without its        *)
(* newline.                                                                *)
(***************************************************************************)
Sp(n) == [k \in 1..n |-> " "]
Blank == <<>>

\* print_prefixes_to_writer
\* print_prefixes_to_writer that writes the separator for an empty map too
print_prefixes_always_separates(map, on) ==
    [k \in 1..Len(map) |->
        colorize(<<"P", "R", "E", "F", "I", "X">>, on) \o <<" ">>
            \o colorize(map[k][1], on) \o <<":", " ", "<">> \o map[k][2]
            \o <<">", " ", ".">>]
    \o <<Blank>>

print_prefixes_to_writer(map, on) ==
    [k \in 1..Len(map) |->
        colorize(<<"P", "R", "E", "F", "I", "X">>, on) \o <<" ">>
            \o colorize(map[k][1], on) \o <<":", " ", "<">> \o map[k][2]
            \o <<">", " ", ".">>]
    \o (IF map # HashMap_new THEN <<Blank>> ELSE <<>>)

\* u8 order of the characters that occur in graph IRIs
Ascii == <<"/", ":", "Z", "a", "b", "e", "g", "h", "n", "p", "r", "t", "u", "z">>
Byte(ch) == CHOOSE k \in 1..Len(Ascii) : Ascii[k] = ch
\* String::cmp(a, b) = Less
cmp_less(a, b) ==
    \E k \in 1..(Len(a) + 1) :
        /\ k <= Len(b)
        /\ \A j \in 1..(k - 1) : a[j] = b[j]
        /\ k = Len(a) + 1 \/ Byte(a[k]) < Byte(b[k])

\* the comparator of graph_keys.sort_by: Less
graph_key_less_reversed(a, b) ==
    IF a = None THEN FALSE
    ELSE IF b = None THEN TRUE
    ELSE cmp_less(Unwrap(b), Unwrap(a))
graph_key_less(a, b) ==
    IF a = None /\ b = None THEN FALSE
    ELSE IF a = None THEN TRUE
    ELSE IF b = None THEN FALSE
    ELSE cmp_less(Unwrap(a), Unwrap(b))

\* graph_groups.keys().collect() followed by sort_by: the keys are distinct,
\* so whatever order the map's iterator gives, the sort leaves one sequence
sorted_graph_keys(ts) ==
    LET keys == {ts[k].graph : k \in 1..Len(ts)}
        n == Cardinality(keys)
    IN  CHOOSE sq \in [1..n -> keys] :
            \A x, y \in 1..n : x < y => graph_key_less(sq[x], sq[y])

triples_in_graph_reversed(ts, graph_key) ==
    LET in_graph(t) == t.graph = graph_key
        selected == SelectSeq(ts, in_graph)
    IN  [k \in 1..Len(selected) |-> selected[Len(selected) + 1 - k]]

\* graph_groups[graph_key]
triples_in_graph(ts, graph_key) ==
    LET in_graph(t) == t.graph = graph_key
    IN  SelectSeq(ts, in_graph)

\* the "{} {{" line of a named graph
compact_graph_header(graph_name, map_opt, on) ==
    colorize(resolve_uri_with_prefixes(graph_name, map_opt), on) \o <<" ", "{">>
expanded_graph_header(graph_name, map_opt, on) ==
    colorize_bold(resolve_uri_with_prefixes(graph_name, map_opt), on) \o <<" ", "{">>

compact_triple_lines_below_width(triple, graph_key, current, map_opt, on, width) ==
    LET subject == format_subject(triple, map_opt)
        predicate == format_predicate(triple, map_opt, on)
        object == format_object(triple, map_opt, on)
        indent == IF IsSome(graph_key) THEN Sp(2) ELSE Sp(0)
        object_part == <<" ">> \o object \o <<" ", ".">>
    IN  IF current = Some(subject)
        THEN LET predicate_line == indent \o Sp(4) \o predicate
                 full_line == predicate_line \o object_part
                 line_length == Len(strip_ansi_codes(full_line))
             IN  IF line_length < width
                 THEN <<full_line>>
                 ELSE <<predicate_line \o <<" ", ";">>,
                        indent \o Sp(8) \o object \o <<" ", ".">>>>
        ELSE LET subject_colored == colorize(subject, on)
                 subject_line == indent \o subject_colored \o <<" ">> \o predicate
                 full_line == subject_line \o object_part
                 line_length == Len(strip_ansi_codes(full_line))
             IN  (IF IsSome(current) /\ graph_key = None THEN <<Blank>> ELSE <<>>)
                 \o (IF line_length < width
                     THEN <<full_line>>
                     ELSE <<subject_line \o <<" ", ";">>,
                            indent \o Sp(4) \o object \o <<" ", ".">>>>)

\* compact.rs: the lines one triple of the loop writes
compact_triple_lines(triple, graph_key, current, map_opt, on, width) ==
    LET subject == format_subject(triple, map_opt)
        predicate == format_predicate(triple, map_opt, on)
        object == format_object(triple, map_opt, on)
        indent == IF IsSome(graph_key) THEN Sp(2) ELSE Sp(0)
        object_part == <<" ">> \o object \o <<" ", ".">>
    IN  IF current = Some(subject)
        THEN LET predicate_line == indent \o Sp(4) \o predicate
                 full_line == predicate_line \o object_part
                 line_length == Len(strip_ansi_codes(full_line))
             IN  IF line_length <= width
                 THEN <<full_line>>
                 ELSE <<predicate_line \o <<" ", ";">>,
                        indent \o Sp(8) \o object \o <<" ", ".">>>>
        ELSE LET subject_colored == colorize(subject, on)
                 subject_line == indent \o subject_colored \o <<" ">> \o predicate
                 full_line == subject_line \o object_part
                 line_length == Len(strip_ansi_codes(full_line))
             IN  (IF IsSome(current) /\ graph_key = None THEN <<Blank>> ELSE <<>>)
                 \o (IF line_length <= width
                     THEN <<full_line>>
                     ELSE <<subject_line \o <<" ", ";">>,
                            indent \o Sp(4) \o object \o <<" ", ".">>>>)

expanded_triple_lines_without_blank(triple, graph_key, current, map_opt, on) ==
    LET subject == format_subject(triple, map_opt)
        predicate == format_predicate(triple, map_opt, on)
        object == format_object(triple, map_opt, on)
        indent == IF IsSome(graph_key) THEN Sp(2) ELSE Sp(0)
        pair == <<indent \o Sp(4) \o predicate \o <<" ", ";">>,
                  indent \o Sp(8) \o object \o <<" ", ".">>>>
    IN  IF current = Some(subject)
        THEN pair
        ELSE <<indent \o colorize_bold(subject, on)>> \o pair

\* expanded.rs: the lines one triple of the loop writes
expanded_triple_lines(triple, graph_key, current, map_opt, on) ==
    LET subject == format_subject(triple, map_opt)
        predicate == format_predicate(triple, map_opt, on)
        object == format_object(triple, map_opt, on)
        indent == IF IsSome(graph_key) THEN Sp(2) ELSE Sp(0)
        pair == <<indent \o Sp(4) \o predicate \o <<" ", ";">>,
                  indent \o Sp(8) \o object \o <<" ", ".">>>>
    IN  IF current = Some(subject)
        THEN pair
        ELSE (IF IsSome(current) THEN <<Blank>> ELSE <<>>)
             \o <<indent \o colorize_bold(subject, on)>> \o pair

(***************************************************************************)
(* One call of render_output.                                              *)
(***************************************************************************)
MaxRenderTriples == 3

IriGa == NsE \o <<"g", "a">>
IriZ == NsE \o <<"Z">>

RenderInputTriples ==
    {LiteralTriple(IriA, IriP, ValV, None),
     NamedNodeTriple(IriA, IriQ, IriB, None),
     LiteralTriple(IriB, IriP, ValV, Some(IriG)),
     LiteralTriple(IriA, IriP, ValV, Some(IriGa)),
     NamedNodeTriple(IriB, IriQ, IriA, Some(IriZ))}
RenderPrefixMaps ==
    {HashMap_new, <<<<PrefixEx, NsE>>>>, <<<<<<"h">>, NsH>>, <<PrefixEx, NsE>>>>}
\* get_terminal_width(): a narrow and a wide terminal
TerminalWidths == {20, 80}

\* what the formatters receive as `prefixes`
PrefixesArg == IF should_expand THEN None ELSE Some(prefixes)

InitRender ==
    /\ ParseIdle /\ TermIdle /\ LaterIdle
    /\ subject_filter = None /\ predicate_filter = None /\ object_filter = None
    /\ filtered = <<>> /\ fpc = "idle"
    /\ triples \in TripleSeqs(RenderInputTriples, MaxRenderTriples)
    /\ prefixes \in RenderPrefixMaps
    /\ should_expand \in BOOLEAN
    /\ colors \in BOOLEAN
    /\ terminal_width \in TerminalWidths
    /\ graph_keys = <<>> /\ graph_idx = 0 /\ triple_idx = 0
    /\ current_subject = None
    /\ output = <<>>
    /\ rpc = "call"

RenderInputs == <<should_expand, colors, terminal_width>>

\* render_output up to the loop over the graphs: the prefix block in compact
\* mode, then graph_groups and its sorted keys
render_output ==
    /\ rpc = "call"
    /\ output' = IF should_expand THEN <<>>
                 ELSE print_prefixes_to_writer(prefixes, colors)
    /\ graph_keys' = sorted_graph_keys(triples)
    /\ graph_idx' = 1
    /\ rpc' = "graph"
    /\ UNCHANGED <<triple_idx, current_subject, RenderInputs>>
    /\ UNCHANGED <<parseVars, filterVars, termVars, laterVars>>

\* for graph_key in graph_keys: the opening line of a named graph
open_graph ==
    /\ rpc = "graph"
    /\ graph_idx <= Len(graph_keys)
    /\ LET graph_key == graph_keys[graph_idx]
       IN  output' =
               IF IsSome(graph_key)
               THEN Append(output,
                        IF should_expand
                        THEN expanded_graph_header(Unwrap(graph_key), PrefixesArg, colors)
                        ELSE compact_graph_header(Unwrap(graph_key), PrefixesArg, colors))
               ELSE output
    /\ current_subject' = None
    /\ triple_idx' = 1
    /\ rpc' = "triple"
    /\ UNCHANGED <<graph_keys, graph_idx, RenderInputs>>
    /\ UNCHANGED <<parseVars, filterVars, termVars, laterVars>>

\* compact.rs, for triple in triples_in_graph
compact_print_triple ==
    /\ rpc = "triple" /\ ~should_expand
    /\ LET graph_key == graph_keys[graph_idx]
           group == triples_in_graph(triples, graph_key)
       IN  /\ triple_idx <= Len(group)
           /\ output' = output \o compact_triple_lines(group[triple_idx], graph_key,
                            current_subject, PrefixesArg, colors, terminal_width)
           /\ current_subject' = Some(format_subject(group[triple_idx], PrefixesArg))
    /\ triple_idx' = triple_idx + 1
    /\ UNCHANGED <<graph_keys, graph_idx, rpc, RenderInputs>>
    /\ UNCHANGED <<parseVars, filterVars, termVars, laterVars>>

\* expanded.rs, for triple in triples_in_graph
expanded_print_triple ==
    /\ rpc = "triple" /\ should_expand
    /\ LET graph_key == graph_keys[graph_idx]
           group == triples_in_graph(triples, graph_key)
       IN  /\ triple_idx <= Len(group)
           /\ output' = output \o expanded_triple_lines(group[triple_idx], graph_key,
                            current_subject, PrefixesArg, colors)
           /\ current_subject' = Some(format_subject(group[triple_idx], PrefixesArg))
    /\ triple_idx' = triple_idx + 1
    /\ UNCHANGED <<graph_keys, graph_idx, rpc, RenderInputs>>
    /\ UNCHANGED <<parseVars, filterVars, termVars, laterVars>>

\* the end of a graph's triples: "}" and a blank line after a named graph
close_graph ==
    /\ rpc = "triple"
    /\ LET graph_key == graph_keys[graph_idx]
       IN  /\ triple_idx > Len(triples_in_graph(triples, graph_key))
           /\ output' = IF IsSome(graph_key)
                        THEN output \o <<<<"}">>, Blank>>
                        ELSE output
    /\ graph_idx' = graph_idx + 1
    /\ rpc' = "graph"
    /\ UNCHANGED <<graph_keys, triple_idx, current_subject, RenderInputs>>
    /\ UNCHANGED <<parseVars, filterVars, termVars, laterVars>>

\* Ok(()) after the last graph
render_return ==
    /\ rpc = "graph"
    /\ graph_idx > Len(graph_keys)
    /\ rpc' = "returned"
    /\ UNCHANGED <<graph_keys, graph_idx, triple_idx, current_subject, output,
                   RenderInputs>>
    /\ UNCHANGED <<parseVars, filterVars, termVars, laterVars>>

NextRender ==
    \/ render_output
    \/ open_graph
    \/ compact_print_triple
    \/ expanded_print_triple
    \/ close_graph
    \/ render_return

SpecRender == InitRender /\ [][NextRender]_vars


(***************************************************************************)
(* Claims about render_output, checked under SpecRender.                   *)
(***************************************************************************)
Rendered == rpc = "returned"
\* the lines of the prefix block, which precede the triples in compact mode
PrefixBlock == IF should_expand \/ prefixes = HashMap_new THEN 0 ELSE Len(prefixes) + 1
Plain(k) == strip_ansi_codes(output[k])
IsGraphOpen(k) == EndsWith(Plain(k), <<" ", "{">>)
IsGraphClose(k) == Plain(k) = <<"}">>
\* every triple ends on exactly one line that closes with " ."
IsStatementEnd(k) == k > PrefixBlock /\ EndsWith(Plain(k), <<" ", ".">>)
NamedGraphs ==
    {Unwrap(triples[k].graph) : k \in {j \in 1..Len(triples) : triples[j].graph # None}}
TriplesOf(graph_key) == {k \in 1..Len(triples) : triples[k].graph = graph_key}
OpenLinesOf(g) ==
    {k \in 1..Len(output) :
        Plain(k) = resolve_uri_with_prefixes(g, PrefixesArg) \o <<" ", "{">>}
CloseAfter(a) ==
    CHOOSE c \in (a + 1)..Len(output) :
        IsGraphClose(c) /\ \A d \in (a + 1)..(c - 1) : ~IsGraphClose(d)

\* C9: in compact and in expanded rendering all default-graph triples are
\* written before any named-graph block, every named graph is written as
\* exactly one block, and the blocks appear in ascending lexicographic order
\* of graph IRI whatever the order of the graphs in the input.
C9_GraphBlocksInOrder ==
    Rendered =>
        /\ \A k \in 1..Len(output) :
              IsGraphOpen(k) => \E g \in NamedGraphs : k \in OpenLinesOf(g)
        /\ \A g \in NamedGraphs : Cardinality(OpenLinesOf(g)) = 1
        /\ \A g, h \in NamedGraphs :
              cmp_less(g, h) =>
                  \A a \in OpenLinesOf(g), b \in OpenLinesOf(h) : a < b
        /\ Cardinality({k \in 1..Len(output) :
                          /\ IsStatementEnd(k)
                          /\ \A j \in 1..Len(output) : IsGraphOpen(j) => k < j})
               = Cardinality(TriplesOf(None))
        /\ \A g \in NamedGraphs : \A a \in OpenLinesOf(g) :
              /\ \E c \in (a + 1)..Len(output) : IsGraphClose(c)
              /\ Cardinality({k \in (a + 1)..(CloseAfter(a) - 1) : IsStatementEnd(k)})
                     = Cardinality(TriplesOf(Some(g)))

C9_Witness ==
    /\ Rendered
    /\ Len(triples) = 3
    /\ triples[1].graph = Some(IriGa)
    /\ triples[2].graph = None
    /\ triples[3].graph = Some(IriG)
    /\ \E a \in OpenLinesOf(IriG), b \in OpenLinesOf(IriGa), d \in 1..Len(output) :
          IsStatementEnd(d) /\ d < a /\ a < b


(***************************************************************************)
(* format_object on one literal, in compact mode (compact.rs hands it      *)
(* Some(prefixes)) and in expanded mode (expanded.rs hands it None).       *)
(***************************************************************************)
XsdPrefix == <<"x","s","d">>
IriT == NsE \o <<"T">>                                  \* http://e/T
Val30 == <<"3","0">>
ValTrue == <<"t","r","u","e">>
LiteralValues == {Val30, ValTrue, ValV}
LiteralDatatypes == BasicDatatypes \cup {IriT}
LangEn == <<"e","n">>

TypedLiteral(value, datatype) ==
    [subject_type |-> "NamedNode", subject_value |-> IriA, predicate |-> IriP,
     object_type |-> "Literal", object_value |-> value,
     object_datatype |-> Some(datatype), object_language |-> None,
     graph |-> None]
LanguageLiteral(value, language) ==
    [subject_type |-> "NamedNode", subject_value |-> IriA, predicate |-> IriP,
     object_type |-> "Literal", object_value |-> value,
     object_datatype |-> None, object_language |-> Some(language),
     graph |-> None]

ObjectInputTriples ==
    {TypedLiteral(v, d) : v \in LiteralValues, d \in LiteralDatatypes}
        \cup {LiteralTriple(IriA, IriP, v, None) : v \in LiteralValues}
        \cup {LanguageLiteral(v, LangEn) : v \in LiteralValues}
        \cup {NamedNodeTriple(IriA, IriP, IriB, None)}
ObjectPrefixMaps ==
    {HashMap_new, <<<<XsdPrefix, XSD>>>>, <<<<PrefixEx, NsE>>, <<XsdPrefix, XSD>>>>}

InitObject ==
    /\ ParseIdle /\ FilterIdle /\ TermIdle /\ RenderIdle
    /\ PagerIdle /\ ExtractIdle /\ AdapterIdle /\ ProvnIdle
    /\ literal \in ObjectInputTriples
    /\ literal_prefixes \in ObjectPrefixMaps
    /\ literal_colors \in BOOLEAN
    /\ compact_object = None /\ expanded_object = None
    /\ opc = "call"

\* compact.rs: format_object(triple, Some(prefixes), colors)
compact_format_object ==
    /\ opc = "call"
    /\ compact_object' = Some(format_object(literal, Some(literal_prefixes), literal_colors))
    /\ opc' = "compact"
    /\ UNCHANGED <<literal, literal_prefixes, literal_colors, expanded_object>>
    /\ UNCHANGED <<parseVars, filterVars, termVars, renderVars, pagerVars,
                   extractVars, adapterVars, provnVars>>

\* expanded.rs: format_object(triple, None, colors)
expanded_format_object ==
    /\ opc = "compact"
    /\ expanded_object' = Some(format_object(literal, None, literal_colors))
    /\ opc' = "done"
    /\ UNCHANGED <<literal, literal_prefixes, literal_colors, compact_object>>
    /\ UNCHANGED <<parseVars, filterVars, termVars, renderVars, pagerVars,
                   extractVars, adapterVars, provnVars>>

NextObject == compact_format_object \/ expanded_format_object

SpecObject == InitObject /\ [][NextObject]_vars

ObjectFormatted == opc = "done"
NumericOrBoolean ==
    /\ literal.object_type = "Literal"
    /\ literal.object_language = None
    /\ IsSome(literal.object_datatype)
    /\ Unwrap(literal.object_datatype) \in NumericDatatypes \cup {BooleanDatatype}

\* C11: a typed literal of a numeric XSD datatype or of xsd:boolean renders
\* in compact mode as its bare value, with no quotes and no datatype suffix,
\* and in expanded mode as the quoted value, ^^ and the bracketed datatype
\* IRI; with colours on, each text is wrapped in the literal colour.
C11_NumericLiteralBareInCompact ==
    (ObjectFormatted /\ NumericOrBoolean) =>
        /\ Unwrap(compact_object) = Paint(literal.object_value, literal_colors)
        /\ Unwrap(expanded_object) =
               Paint(Quoted(literal.object_value) \o <<"^", "^", "<">>
                         \o Unwrap(literal.object_datatype) \o <<">">>,
                     literal_colors)

C11_Witness ==
    /\ ObjectFormatted /\ NumericOrBoolean
    /\ literal.object_value = Val30
    /\ Unwrap(literal.object_datatype) = XSD \o <<"i","n","t","e","g","e","r">>
    /\ ~literal_colors
    /\ Unwrap(compact_object) = Val30


(***************************************************************************)
(* The pager decision (src/src/pager.rs).  The two trait methods of        *)
(* ArgsConfig and the fields of config.output are the inputs; the terminal *)
(* height is what utils::get_terminal_height returns.                      *)
(***************************************************************************)
MaxEstimatedLines == 4
TerminalHeights == {0, 1, 2, 3, 5}
Thresholds == 0..3

\* usize::saturating_sub
saturating_sub(a, b) == IF a >= b THEN a - b ELSE 0

\* should_use_pager in which an explicit --pager beats --no-pager
should_use_pager_enable_wins(no_pager, pager, auto, threshold_cfg, height, estimate) ==
    IF pager THEN TRUE
    ELSE IF no_pager THEN FALSE
    ELSE IF ~auto THEN FALSE
    ELSE estimate > (IF threshold_cfg > 0 THEN threshold_cfg ELSE saturating_sub(height, 2))

\* should_use_pager that pages from the threshold on
should_use_pager_at_threshold(no_pager, pager, auto, threshold_cfg, height, estimate) ==
    IF no_pager THEN FALSE
    ELSE IF pager THEN TRUE
    ELSE IF ~auto THEN FALSE
    ELSE estimate >= (IF threshold_cfg > 0 THEN threshold_cfg ELSE saturating_sub(height, 2))

should_use_pager(no_pager, pager, auto, threshold_cfg, height, estimate) ==
    IF no_pager THEN FALSE
    ELSE IF pager THEN TRUE
    ELSE IF ~auto THEN FALSE
    ELSE LET threshold == IF threshold_cfg > 0
                          THEN threshold_cfg
                          ELSE saturating_sub(height, 2)
         IN  estimate > threshold

InitPager ==
    /\ ParseIdle /\ FilterIdle /\ TermIdle /\ RenderIdle
    /\ ObjectIdle /\ ExtractIdle /\ AdapterIdle /\ ProvnIdle
    /\ no_pager_explicit \in BOOLEAN
    /\ use_pager \in BOOLEAN
    /\ auto_pager \in BOOLEAN
    /\ auto_pager_threshold \in Thresholds
    /\ terminal_height \in TerminalHeights
    /\ estimated_lines \in 0..MaxEstimatedLines
    /\ paging = None
    /\ ppc = "call"

should_use_pager_call ==
    /\ ppc = "call"
    /\ paging' = Some(should_use_pager(no_pager_explicit, use_pager, auto_pager,
                                       auto_pager_threshold, terminal_height,
                                       estimated_lines))
    /\ ppc' = "done"
    /\ UNCHANGED <<no_pager_explicit, use_pager, auto_pager, auto_pager_threshold,
                   terminal_height, estimated_lines>>
    /\ UNCHANGED <<parseVars, filterVars, termVars, renderVars, objectVars,
                   extractVars, adapterVars, provnVars>>

NextPager == should_use_pager_call

SpecPager == InitPager /\ [][NextPager]_vars

PagerDecided == ppc = "done"

\* C12: should_use_pager returns false whenever the explicit no-pager flag
\* is set, and true whenever the explicit use-pager flag is set and no-pager
\* is not, for every estimate, threshold, height and auto-pager setting.
C12_ExplicitFlagsDecide ==
    PagerDecided =>
        /\ no_pager_explicit => Unwrap(paging) = FALSE
        /\ (use_pager /\ ~no_pager_explicit) => Unwrap(paging) = TRUE

C12_Witness ==
    /\ PagerDecided /\ no_pager_explicit /\ use_pager /\ auto_pager
    /\ estimated_lines = MaxEstimatedLines /\ auto_pager_threshold = 1
    /\ Unwrap(paging) = FALSE

EffectiveThreshold ==
    IF auto_pager_threshold # 0
    THEN auto_pager_threshold
    ELSE IF terminal_height >= 2 THEN terminal_height - 2 ELSE 0

\* C13: with neither explicit flag, should_use_pager returns false when
\* auto-paging is disabled, and otherwise true exactly when the estimate is
\* strictly greater than the threshold: the configured threshold when it is
\* nonzero, else the terminal height minus 2, saturating at 0.
C13_AutoPagerThreshold ==
    (PagerDecided /\ ~no_pager_explicit /\ ~use_pager) =>
        /\ ~auto_pager => Unwrap(paging) = FALSE
        /\ auto_pager => (Unwrap(paging) = TRUE <=> estimated_lines > EffectiveThreshold)

C13_Witness ==
    /\ PagerDecided /\ ~no_pager_explicit /\ ~use_pager /\ auto_pager
    /\ auto_pager_threshold = 0 /\ terminal_height = 1
    /\ estimated_lines = 1 /\ Unwrap(paging) = TRUE


(***************************************************************************)
(* Compact rendering on its own: render_output with should_expand false,   *)
(* on triples most of which are in the default graph.                      *)
(***************************************************************************)
CompactInputTriples ==
    {LiteralTriple(IriA, IriP, ValV, None),
     NamedNodeTriple(IriA, IriQ, IriB, None),
     LiteralTriple(IriB, IriP, ValV, None),
     LiteralTriple(IriB, IriP, ValV, Some(IriG))}

InitCompact ==
    /\ ParseIdle /\ TermIdle /\ LaterIdle
    /\ subject_filter = None /\ predicate_filter = None /\ object_filter = None
    /\ filtered = <<>> /\ fpc = "idle"
    /\ triples \in TripleSeqs(CompactInputTriples, MaxRenderTriples)
    /\ prefixes \in RenderPrefixMaps
    /\ should_expand = FALSE
    /\ colors \in BOOLEAN
    /\ terminal_width \in TerminalWidths
    /\ graph_keys = <<>> /\ graph_idx = 0 /\ triple_idx = 0
    /\ current_subject = None
    /\ output = <<>>
    /\ rpc = "call"

NextCompact ==
    \/ render_output
    \/ open_graph
    \/ compact_print_triple
    \/ close_graph
    \/ render_return

SpecCompact == InitCompact /\ [][NextCompact]_vars

\* the triples of the default graph, in input order
DefaultTriples == triples_in_graph(triples, None)
\* the lines between the prefix block and the first named-graph block
DefaultLines ==
    {k \in (PrefixBlock + 1)..Len(output) :
        \A j \in (PrefixBlock + 1)..k : ~IsGraphOpen(j)}
IsPrefixLine(k, entry) ==
    Plain(k) = <<"P", "R", "E", "F", "I", "X", " ">> \o entry[1]
                   \o <<":", " ", "<">> \o entry[2] \o <<">", " ", ".">>
\* the triples that open a subject block: the first one, and every one whose
\* subject differs from its predecessor's
BlockHeads ==
    {k \in 1..Len(DefaultTriples) :
        k = 1 \/ DefaultTriples[k].subject_value # DefaultTriples[k - 1].subject_value
              \/ DefaultTriples[k].subject_type # DefaultTriples[k - 1].subject_type}
\* the lines on which a subject is written: they start in column 0
SubjectLines == {k \in DefaultLines : Plain(k) # Blank /\ Plain(k)[1] # " "}
BlankLines == {k \in DefaultLines : Plain(k) = Blank}
PairEndLines == {k \in DefaultLines : EndsWith(Plain(k), <<" ", ".">>)}
RankOf(S, k) == Cardinality({j \in S : j <= k})

\* C14: compact rendering writes one PREFIX line per PrefixMap entry, then
\* exactly one blank line, then the subject blocks of the default graph;
\* consecutive triples of one subject form one block that writes the subject
\* once and one predicate-object pair per triple; no blank line precedes the
\* first block; an empty PrefixMap writes no PREFIX line and no separator.
C14_CompactPrefixBlockAndSubjectBlocks ==
    (Rendered /\ ~should_expand) =>
        /\ \A k \in 1..Len(prefixes) : IsPrefixLine(k, prefixes[k])
        /\ prefixes # HashMap_new => Plain(Len(prefixes) + 1) = Blank
        /\ DefaultTriples # <<>> =>
               /\ PrefixBlock + 1 \in SubjectLines
               /\ Cardinality(SubjectLines) = Cardinality(BlockHeads)
               /\ \A l \in SubjectLines : \A h \in BlockHeads :
                      RankOf(SubjectLines, l) = RankOf(BlockHeads, h) =>
                          StartsWith(Plain(l),
                              format_subject(DefaultTriples[h], PrefixesArg) \o <<" ">>)
               /\ Cardinality(PairEndLines) = Len(DefaultTriples)
               /\ Cardinality(BlankLines) = Cardinality(BlockHeads) - 1
               /\ \A l \in BlankLines : l + 1 \in SubjectLines
        /\ DefaultTriples = <<>> => SubjectLines = {}

C14_Witness ==
    /\ Rendered /\ ~should_expand
    /\ Len(prefixes) = 2
    /\ Len(DefaultTriples) = 3
    /\ DefaultTriples[1].subject_value = DefaultTriples[2].subject_value
    /\ DefaultTriples[2].subject_value # DefaultTriples[3].subject_value
    /\ Cardinality(SubjectLines) = 2
    /\ Len(output) = 7

C14_WitnessNoPrefixes ==
    /\ Rendered /\ ~should_expand /\ prefixes = HashMap_new
    /\ Len(DefaultTriples) = 2 /\ Cardinality(BlockHeads) = 1
    /\ Len(output) = 2


(***************************************************************************)
(* extract_prefixes (src/src/parser/common.rs): the raw lines of the       *)
(* reader, one at a time.  A line of the model carries its text, which is  *)
(* all the program reads, and what it declares according to the grammar.   *)
(***************************************************************************)
MaxContentLines == 3

LineTurtleEx ==
    [text |-> <<"@","p","r","e","f","i","x"," ","e",":"," ","<","x",">"," ",".">>,    \* @prefix e: <x> .
     kind |-> "prefix", name |-> <<"e">>, iri |-> <<"x">>]
LineTurtleExAgain ==
    [text |-> <<" "," ","@","p","r","e","f","i","x"," ","e",":"," ","<","y",">"," ",".">>,    \*   @prefix e: <y> .
     kind |-> "prefix", name |-> <<"e">>, iri |-> <<"y">>]
LineSparqlF ==
    [text |-> <<"P","R","E","F","I","X"," ","f",":"," ","<","y",">">>,    \* PREFIX f: <y>
     kind |-> "prefix", name |-> <<"f">>, iri |-> <<"y">>]
LineSparqlLower ==
    [text |-> <<"p","r","e","f","i","x"," ","e",":"," ","<","z",">">>,    \* prefix e: <z>
     kind |-> "prefix", name |-> <<"e">>, iri |-> <<"z">>]
LineEmptyName ==
    [text |-> <<"@","p","r","e","f","i","x"," ",":"," ","<","x",">"," ",".">>,    \* @prefix : <x> .
     kind |-> "prefix", name |-> <<>>, iri |-> <<"x">>]
LineBase ==
    [text |-> <<"@","b","a","s","e"," ","<","b",">"," ",".">>,    \* @base <b> .
     kind |-> "base", name |-> <<>>, iri |-> <<"b">>]
LineHash ==
    [text |-> <<"#"," ","@","p","r","e","f","i","x"," ","f",":"," ","<","x",">"," ",".">>,    \* # @prefix f: <x> .
     kind |-> "other", name |-> <<>>, iri |-> <<>>]
LineTriples ==
    [text |-> <<"e",":","a"," ","e",":","p"," ","<","o",">"," ",".">>,    \* e:a e:p <o> .
     kind |-> "other", name |-> <<>>, iri |-> <<>>]
LinePrefixedSubject ==
    [text |-> <<"p","r","e","f","i","x",":","a"," ","e",":","p"," ","<","o",">"," ",".">>,    \* prefix:a e:p <o> .
     kind |-> "other", name |-> <<>>, iri |-> <<>>]
LineEmpty ==
    [text |-> <<>>,    \* (empty)
     kind |-> "other", name |-> <<>>, iri |-> <<>>]
ContentLines ==
    {LineTurtleEx, LineTurtleExAgain, LineSparqlF, LineSparqlLower, LineEmptyName,
     LineBase, LineHash, LineTriples, LinePrefixedSubject, LineEmpty}

\* str::trim
trim(s) ==
    LET inner == {i \in 1..Len(s) : s[i] # " "}
    IN  IF inner = {} THEN <<>>
        ELSE SubSeq(s, CHOOSE i \in inner : \A j \in inner : i <= j,
                       CHOOSE i \in inner : \A j \in inner : j <= i)
\* str::to_uppercase on the letters a..z
LowerCase == <<"a","b","c","d","e","f","g","h","i","j","k","l","m","n","o","p","q","r","s","t","u","v","w","x","y","z">>
UpperCase == <<"A","B","C","D","E","F","G","H","I","J","K","L","M","N","O","P","Q","R","S","T","U","V","W","X","Y","Z">>
to_uppercase(s) ==
    [i \in 1..Len(s) |->
        IF \E k \in 1..26 : LowerCase[k] = s[i]
        THEN UpperCase[CHOOSE k \in 1..26 : LowerCase[k] = s[i]]
        ELSE s[i]]

\* the part of parse_turtle_prefix and parse_sparql_prefix after the
\* keyword: Option<(String, String)>
parse_name_and_iri(rest) ==
    LET colon_pos == Find(rest, ":")
        prefix_name == trim(SubSeq(rest, 1, colon_pos - 1))
        iri_part == trim(SubSeq(rest, colon_pos + 1, Len(rest)))
        start_bracket == Find(iri_part, "<")
        end_bracket == Find(iri_part, ">")
    IN  IF colon_pos = 0 THEN None
        ELSE IF start_bracket = 0 \/ end_bracket = 0 THEN None
        ELSE IF end_bracket <= start_bracket THEN None
        ELSE Some(<<prefix_name, SubSeq(iri_part, start_bracket + 1, end_bracket - 1)>>)

parse_turtle_prefix(trimmed) ==
    IF ~StartsWith(trimmed, <<"@","p","r","e","f","i","x">>) THEN None
    ELSE parse_name_and_iri(trim(SubSeq(trimmed, 8, Len(trimmed))))

parse_sparql_prefix(trimmed) ==
    IF ~StartsWith(to_uppercase(trimmed), <<"P","R","E","F","I","X">>) THEN None
    ELSE parse_name_and_iri(trim(SubSeq(trimmed, 7, Len(trimmed))))

parse_base_declaration(trimmed) ==
    IF ~StartsWith(trimmed, <<"@","b","a","s","e">>) THEN None
    ELSE LET rest == trim(SubSeq(trimmed, 6, Len(trimmed)))
             start_bracket == Find(rest, "<")
             end_bracket == Find(rest, ">")
         IN  IF start_bracket = 0 \/ end_bracket = 0 THEN None
             ELSE IF end_bracket <= start_bracket THEN None
             ELSE Some(SubSeq(rest, start_bracket + 1, end_bracket - 1))

\* the body of the loop of extract_prefixes for one line
extract_line(map, text) ==
    LET trimmed == trim(text)
    IN  IF trimmed = <<>> \/ StartsWith(trimmed, <<"#">>) THEN map
        ELSE IF IsSome(parse_turtle_prefix(trimmed))
        THEN Insert(map, Unwrap(parse_turtle_prefix(trimmed))[1],
                         Unwrap(parse_turtle_prefix(trimmed))[2])
        ELSE IF IsSome(parse_sparql_prefix(trimmed))
        THEN Insert(map, Unwrap(parse_sparql_prefix(trimmed))[1],
                         Unwrap(parse_sparql_prefix(trimmed))[2])
        ELSE IF IsSome(parse_base_declaration(trimmed))
        THEN Insert(map, <<>>, Unwrap(parse_base_declaration(trimmed)))
        ELSE map

InitExtract ==
    /\ ParseIdle /\ FilterIdle /\ TermIdle /\ RenderIdle
    /\ ObjectIdle /\ PagerIdle /\ AdapterIdle /\ ProvnIdle
    /\ content \in UNION {[1..n -> ContentLines] : n \in 0..MaxContentLines}
    /\ content_idx = 0
    /\ extracted = HashMap_new
    /\ xpc = "lines"

\* for line in buf_reader.lines()
extract_next_line ==
    /\ xpc = "lines"
    /\ content_idx < Len(content)
    /\ content_idx' = content_idx + 1
    /\ extracted' = extract_line(extracted, content[content_idx + 1].text)
    /\ UNCHANGED <<content, xpc>>
    /\ UNCHANGED <<parseVars, filterVars, termVars, renderVars, objectVars,
                   pagerVars, adapterVars, provnVars>>

\* the end of the reader: extract_prefixes returns the map
extract_return ==
    /\ xpc = "lines"
    /\ content_idx = Len(content)
    /\ xpc' = "returned"
    /\ UNCHANGED <<content, content_idx, extracted>>
    /\ UNCHANGED <<parseVars, filterVars, termVars, renderVars, objectVars,
                   pagerVars, adapterVars, provnVars>>

NextExtract == extract_next_line \/ extract_return

SpecExtract == InitExtract /\ [][NextExtract]_vars

Extracted == xpc = "returned"
\* the key a declaration is stored under: the declared name, and the empty
\* string for @base
DeclaredKey(line) == IF line.kind = "base" THEN <<>> ELSE line.name
Declarations == {k \in 1..Len(content) : content[k].kind # "other"}
DeclarationsOf(key) == {k \in Declarations : DeclaredKey(content[k]) = key}
LastOf(S) == CHOOSE k \in S : \A j \in S : j <= k

\* C15: extract_prefixes returns a map with one entry per name declared by
\* an @prefix, PREFIX or @base line and no other entry; the entry of a name
\* is the IRI of its last declaration in document order, and an @base IRI
\* is stored under the empty-string key.
C15_ExtractedAreLastDeclarations ==
    Extracted =>
        /\ Keys(extracted) = {DeclaredKey(content[k]) : k \in Declarations}
        /\ \A key \in Keys(extracted) :
               DeclarationsOf(key) # {} =>
                   Lookup(extracted, key) = content[LastOf(DeclarationsOf(key))].iri

\* the same document without a statement that begins with the letters of
\* the keyword PREFIX
NoKeywordLookalike ==
    \A k \in 1..Len(content) : content[k] # LinePrefixedSubject
C15_HoldsWithoutLookalike ==
    (Extracted /\ NoKeywordLookalike) =>
        /\ Keys(extracted) = {DeclaredKey(content[k]) : k \in Declarations}
        /\ \A key \in Keys(extracted) :
               Lookup(extracted, key) = content[LastOf(DeclarationsOf(key))].iri
C15_LastWinsReached ==
    /\ Extracted /\ Len(content) = 3
    /\ content[1] = LineTurtleEx /\ content[2] = LineBase
    /\ content[3] = LineSparqlLower
    /\ Get(extracted, <<"e">>) = Some(<<"z">>)
    /\ Get(extracted, <<>>) = Some(<<"b">>)


(***************************************************************************)
(* The format adapter on its own: one call of triple_to_owned or           *)
(* quad_to_owned (src/src/parser/common.rs) on a term of the library, or   *)
(* of create_type_triple or create_triple (src/src/parser/provn.rs) with   *)
(* the arguments their callers pass.                                       *)
(***************************************************************************)
RdfType == <<"h","t","t","p",":","/","/","w","w","w",".","w","3",".","o","r","g","/","1","9","9","9","/","0","2","/","2","2","-","r","d","f","-","s","y","n","t","a","x","-","n","s","#","t","y","p","e">>

create_type_triple(subject, type_iri) ==
    [subject_type    |-> "NamedNode",
     subject_value   |-> subject,
     predicate       |-> RdfType,
     object_type     |-> "NamedNode",
     object_value    |-> type_iri,
     object_datatype |-> None,
     object_language |-> None,
     graph           |-> None,
     subject_triple  |-> None,
     object_triple   |-> None]

create_triple(subject, predicate, object, object_type) ==
    [subject_type    |-> "NamedNode",
     subject_value   |-> subject,
     predicate       |-> predicate,
     object_type     |-> object_type,
     object_value    |-> object,
     object_datatype |-> None,
     object_language |-> None,
     graph           |-> None,
     subject_triple  |-> None,
     object_triple   |-> None]

BlankId == <<"b","0">>
SubjectTerms == {NamedNode(IriA), BlankNode(BlankId)}
PlainObjectTerms ==
    {NamedNode(IriB), BlankNode(BlankId), SimpleLiteral(ValV),
     LanguageTaggedLiteral(ValV, LangEn),
     TypedLiteralTerm(Val30, XSD \o <<"i","n","t","e","g","e","r">>),
     TypedLiteralTerm(ValV, XsdString)}
PlainTriples ==
    {Triple(s, NamedNode(IriP), o) : s \in SubjectTerms, o \in PlainObjectTerms}
\* RDF-star: a triple as object, one and two levels deep
EmbeddedOnce ==
    {Triple(NamedNode(IriA), NamedNode(IriQ), TripleTerm(t)) : t \in PlainTriples}
EmbeddedTwice ==
    {Triple(NamedNode(IriB), NamedNode(IriQ), TripleTerm(t)) :
        t \in {e \in EmbeddedOnce : e.object.triple[1].object.term = "Literal"}}
LibraryTriples == PlainTriples \cup EmbeddedOnce \cup EmbeddedTwice
GraphNames == {DefaultGraph, NamedNode(IriG), BlankNode(BlankId)}
LibraryQuads ==
    {Quad(t.subject, t.predicate, t.object, g) :
        t \in PlainTriples \cup EmbeddedOnce, g \in GraphNames}
\* the object types the PROV-N statement parsers pass to create_triple
ProvnObjectTypes == {"Literal", "NamedNode"}

AdapterInputs ==
    {[fn |-> "triple_to_owned", arg |-> t] : t \in LibraryTriples}
        \cup {[fn |-> "quad_to_owned", arg |-> q] : q \in LibraryQuads}
        \cup {[fn |-> "create_type_triple", arg |-> <<IriA, IriB>>]}
        \cup {[fn |-> "create_triple", arg |-> <<IriA, IriP, o, ot>>] :
                  o \in {IriB, ValV}, ot \in ProvnObjectTypes}

InitAdapter ==
    /\ ParseIdle /\ FilterIdle /\ TermIdle /\ RenderIdle
    /\ ObjectIdle /\ PagerIdle /\ ExtractIdle /\ ProvnIdle
    /\ adapter_input \in AdapterInputs
    /\ owned = None
    /\ apc = "call"

AdapterOthers ==
    <<parseVars, filterVars, termVars, renderVars, objectVars, pagerVars, extractVars,
      provnVars>>

triple_to_owned_call ==
    /\ apc = "call" /\ adapter_input.fn = "triple_to_owned"
    /\ owned' = Some(triple_to_owned(adapter_input.arg))
    /\ apc' = "returned"
    /\ UNCHANGED <<adapter_input, AdapterOthers>>

quad_to_owned_call ==
    /\ apc = "call" /\ adapter_input.fn = "quad_to_owned"
    /\ owned' = Some(quad_to_owned(adapter_input.arg))
    /\ apc' = "returned"
    /\ UNCHANGED <<adapter_input, AdapterOthers>>

create_type_triple_call ==
    /\ apc = "call" /\ adapter_input.fn = "create_type_triple"
    /\ owned' = Some(create_type_triple(adapter_input.arg[1], adapter_input.arg[2]))
    /\ apc' = "returned"
    /\ UNCHANGED <<adapter_input, AdapterOthers>>

create_triple_call ==
    /\ apc = "call" /\ adapter_input.fn = "create_triple"
    /\ owned' = Some(create_triple(adapter_input.arg[1], adapter_input.arg[2],
                                   adapter_input.arg[3], adapter_input.arg[4]))
    /\ apc' = "returned"
    /\ UNCHANGED <<adapter_input, AdapterOthers>>

NextAdapter ==
    \/ triple_to_owned_call
    \/ quad_to_owned_call
    \/ create_type_triple_call
    \/ create_triple_call

SpecAdapter == InitAdapter /\ [][NextAdapter]_vars

Converted == apc = "returned"
\* the triple returned and the triples embedded in it
ProducedTriples ==
    LET t == Unwrap(owned)
        inner == IF IsSome(t.object_triple) THEN {Unwrap(t.object_triple)} ELSE {}
        innermost == {Unwrap(e.object_triple) : e \in {i \in inner : IsSome(i.object_triple)}}
    IN  {t} \cup inner \cup innermost
TagsConsistent(t) ==
    /\ ~(IsSome(t.object_language) /\ IsSome(t.object_datatype))
    /\ t.object_type = "Triple" <=> IsSome(t.object_triple)
    /\ t.subject_type = "Triple" <=> IsSome(t.subject_triple)
FromNamedGraphQuad ==
    /\ adapter_input.fn = "quad_to_owned"
    /\ adapter_input.arg.graph_name # DefaultGraph

\* C16: in every OwnedTriple the format adapter produces, object_language and
\* object_datatype are never both set, object_type is Triple exactly when
\* object_triple is present, subject_type is Triple exactly when
\* subject_triple is present, and graph is set only by quad_to_owned and only
\* for a quad that is not in the default graph.
C16_OwnedTripleInvariants ==
    Converted =>
        /\ \A t \in ProducedTriples : TagsConsistent(t)
        /\ \A t \in ProducedTriples : IsSome(t.graph) => (t = Unwrap(owned) /\ FromNamedGraphQuad)

C16_Witness ==
    /\ Converted /\ FromNamedGraphQuad
    /\ Unwrap(owned).graph = Some(IriG)
    /\ Unwrap(owned).object_type = "Triple"
    /\ IsSome(Unwrap(owned).object_triple)
    /\ Unwrap(Unwrap(owned).object_triple).object_language = Some(LangEn)
    /\ Unwrap(Unwrap(owned).object_triple).object_datatype = None


(***************************************************************************)
(* The statement boundaries of the lenient Turtle and TriG parse.          *)
(***************************************************************************)
InLoop == pc = "loop" /\ BlockFormat
Skipped(k) == IsBlankOrComment(lines[k]) \/ StartsWithAtPrefix(lines[k])
\* the positions of the token tok in the accumulated lines 1..k
TokenPositions(k, tok) ==
    {q \in UNION {{<<i, j>> : j \in 1..Len(lines[i])} : i \in 1..k} :
        ~Skipped(q[1]) /\ lines[q[1]][q[2]] = tok}
\* the brace-nesting depth after line k
DepthAfter(k) ==
    Cardinality(TokenPositions(k, "{")) - Cardinality(TokenPositions(k, "}"))
\* this step reads an accumulated line and hands the buffer to the parser
ParsesAtLine ==
    /\ InLoop /\ line_num < Len(lines)
    /\ ~Skipped(line_num + 1)
    /\ line_num' = line_num + 1
    /\ current_statement' = <<>>

\* C17: in the lenient TriG parse a line is a statement boundary only when
\* the brace-nesting depth after it is zero: a line ending with '.' inside
\* an open graph block is none, so that a graph block spread over several
\* lines reaches the strict parser as one fragment.
C17_TrigBoundaryOnlyAtDepthZero ==
    [][(ParsesAtLine /\ format = "TriG") => DepthAfter(line_num + 1) = 0]_vars

\* line k closes a statement
BoundaryAt(k) ==
    /\ ~Skipped(k)
    /\ \/ EndsWithDot(lines[k])
       \/ format = "TriG" /\ EndsWithBrace(lines[k]) /\ DepthAfter(k) = 0
LastBoundary ==
    LET S == {0} \cup {k \in 1..line_num : BoundaryAt(k)}
    IN  CHOOSE k \in S : \A j \in S : j <= k
Accumulated(line) == ~(IsBlankOrComment(line) \/ StartsWithAtPrefix(line))

\* C18: when the fragment parsed at a statement boundary fails, exactly one
\* ParseError is recorded, with the 1-based number of the boundary line, and
\* no triple; after every boundary, failed or not, the buffer is empty, so
\* that the buffer only ever holds lines that follow the last boundary.
C18_FailedBoundaryDiscardsBuffer ==
    /\ [](InLoop =>
            current_statement =
                SelectSeq(SubSeq(lines, LastBoundary + 1, line_num), Accumulated))
    /\ [][(InLoop /\ line_num < Len(lines) /\ BoundaryAt(line_num + 1)) =>
            /\ current_statement' = <<>>
            /\ IF GrammarParser(format, AttemptedFragment).ok
               THEN result'.errors = result.errors
               ELSE /\ result'.errors =
                           Append(result.errors, ParseError(line_num + 1))
                    /\ result'.triples = result.triples]_vars

C18_Witness ==
    /\ Returned /\ continue_on_error /\ BlockFormat
    /\ Len(lines) = 3
    /\ BoundaryAt(2) /\ BoundaryAt(3)
    /\ ret.value.errors = <<ParseError(2)>>
    /\ ret.value.triples # <<>>

\* this step is the end of the input with a buffer that is not empty
ParsesRest ==
    /\ InLoop /\ line_num = Len(lines)
    /\ current_statement # <<>>
    /\ pc' = "returned"

\* C19: a buffer left at the end of the input is parsed once more with the
\* prefix declarations; when it parses, its triples are appended to the
\* triples of the result, and when it fails, one ParseError is recorded whose
\* line is the number of input lines.
C19_TrailingBufferMerged ==
    [][ParsesRest =>
            LET raw == GrammarParser(format, full_input(prefix_declarations,
                                                        current_statement))
            IN  IF raw.ok
                THEN /\ result'.triples = result.triples \o raw.triples
                     /\ result'.errors = result.errors
                ELSE /\ result'.triples = result.triples
                     /\ result'.errors = Append(result.errors, ParseError(Len(lines)))]_vars

\* the part of C19 about a trailing buffer that fails
C19_TrailingFailureRecorded ==
    [][ParsesRest =>
            LET raw == GrammarParser(format, full_input(prefix_declarations,
                                                        current_statement))
            IN  ~raw.ok =>
                    /\ result'.triples = result.triples
                    /\ result'.errors = Append(result.errors, ParseError(Len(lines)))]_vars

\* the prefixes the document declares: name and IRI of its @prefix lines
DeclaredInDocument ==
    {<<PrefixEx, IriOf(lines[k][3])>> :
        k \in {j \in 1..Len(lines) : lines[j] = LPrefix}}

\* C20: after a lenient parse of a Turtle or TriG document in which a
\* fragment parsed, the prefixes of the returned result hold every prefix
\* the document declares, under its name and with its IRI.
C20_LenientResultHoldsPrefixes ==
    (Returned /\ continue_on_error /\ BlockFormat /\ ret.tag = "Ok"
        /\ ret.value.triples # <<>>) =>
        \A d \in DeclaredInDocument : Get(ret.value.prefixes, d[1]) = Some(d[2])


(***************************************************************************)
(* The object pattern of the filter.                                       *)
(***************************************************************************)
OnlyObjectPattern ==
    subject_filter = None /\ predicate_filter = None /\ IsSome(object_filter)
\* the expansion of a pattern: angle brackets stripped, or the prefix before
\* the first colon replaced by its namespace
ExpandedPattern(pattern) ==
    LET colon == Find(pattern, ":")
    IN  IF pattern[1] = "<" /\ pattern[Len(pattern)] = ">"
        THEN SubSeq(pattern, 2, Len(pattern) - 1)
        ELSE IF colon > 0 /\ SubSeq(pattern, 1, colon - 1) \in Keys(prefixes)
        THEN Lookup(prefixes, SubSeq(pattern, 1, colon - 1))
                 \o SubSeq(pattern, colon + 1, Len(pattern))
        ELSE pattern
ObjectIsRawOrExpanded(t) ==
    \/ t.object_value = Unwrap(object_filter)
    \/ t.object_value = ExpandedPattern(Unwrap(object_filter))

\* C21: an object pattern selects exactly the triples whose object_value is
\* string-equal to the raw pattern text or to the expanded pattern (angle
\* brackets stripped, or prefix replaced by its namespace), and no other.
C21_ObjectMatchesRawOrExpanded ==
    (FilterReturned /\ OnlyObjectPattern) =>
        filtered = SelectSeq(triples, ObjectIsRawOrExpanded)

\* the same where no declared prefix name begins with the letters http
NoHttpPrefixName == \A k \in Keys(prefixes) : ~StartsWith(k, HTTP)
C21_HoldsWithoutHttpPrefix ==
    (FilterReturned /\ OnlyObjectPattern /\ NoHttpPrefixName) =>
        filtered = SelectSeq(triples, ObjectIsRawOrExpanded)
C21_RawAndExpandedReached ==
    /\ FilterReturned /\ OnlyObjectPattern
    /\ Unwrap(object_filter) = PrefixEx \o <<":", "b">>
    /\ prefixes = <<<<PrefixEx, NsE>>>>
    /\ Len(triples) = 2 /\ Len(filtered) = 1
    /\ filtered[1].object_value = IriB


(***************************************************************************)
(* Typed literals of the other datatypes.                                  *)
(***************************************************************************)
IsTypedLiteral ==
    /\ literal.object_type = "Literal"
    /\ literal.object_language = None
    /\ IsSome(literal.object_datatype)
\* the quoted value with the datatype suffix, the datatype written in full
\* or abbreviated with the prefix map
WithSuffix(map_opt) ==
    Paint(Quoted(literal.object_value) \o <<"^", "^">>
              \o resolve_uri_with_prefixes(Unwrap(literal.object_datatype), map_opt),
          literal_colors)

\* C22: in compact mode a typed literal whose datatype is neither numeric
\* nor boolean (xsd:date, xsd:time, xsd:dateTime and xsd:string included)
\* renders as the quoted value followed by the ^^ datatype suffix; in
\* expanded mode every typed literal renders with the full datatype suffix.
C22_OtherDatatypesKeepSuffix ==
    (ObjectFormatted /\ IsTypedLiteral) =>
        /\ ~NumericOrBoolean =>
               Unwrap(compact_object) \in {WithSuffix(Some(literal_prefixes)), WithSuffix(None)}
        /\ Unwrap(expanded_object) = WithSuffix(None)

\* the parts of C22 that hold: datatypes outside the XSD basic ones in
\* compact mode, and every datatype in expanded mode
C22_HoldsOutsideBasicDatatypes ==
    (ObjectFormatted /\ IsTypedLiteral) =>
        /\ Unwrap(literal.object_datatype) \notin BasicDatatypes =>
               Unwrap(compact_object) = WithSuffix(Some(literal_prefixes))
        /\ Unwrap(expanded_object) = WithSuffix(None)


(***************************************************************************)
(* process_with_auto_pager: the estimate of the output and render_output   *)
(* in both modes, on triples of the default graph and of one named graph,  *)
(* each with two subjects.                                                 *)
(***************************************************************************)
LayoutInputTriples ==
    {LiteralTriple(IriA, IriP, ValV, None),
     NamedNodeTriple(IriB, IriQ, IriA, None),
     LiteralTriple(IriA, IriP, ValV, Some(IriG)),
     NamedNodeTriple(IriB, IriQ, IriA, Some(IriG))}
\* http://, a namespace that covers the IRIs of http://e/ as well
NsHttp == HTTP \o <<":", "/", "/">>
\* the map of two overlapping namespaces is there in both orders its
\* iterator can visit the entries
LayoutPrefixMaps ==
    {HashMap_new, <<<<PrefixEx, NsE>>>>,
     <<<<<<"h">>, NsHttp>>, <<PrefixEx, NsE>>>>, <<<<PrefixEx, NsE>>, <<<<"h">>, NsHttp>>>>}
\* get_terminal_width(): a width one compact line fits exactly, and a wide one
ProcessWidths == {14, 80}

\* the sum of f over a finite set
SumOver(S, f(_)) == Cardinality(UNION {{<<x, n>> : n \in 1..f(x)} : x \in S})

\* mod.rs: format!("{}:{}", "n" or "b", triple.subject_value)
subject_key(triple) ==
    (IF triple.subject_type = "NamedNode" THEN <<"n">> ELSE <<"b">>)
        \o <<":">> \o triple.subject_value
\* mod.rs: the subject_groups of one graph, subject key -> number of triples
subject_groups(in_graph) ==
    [key \in {subject_key(in_graph[i]) : i \in 1..Len(in_graph)} |->
        Cardinality({i \in 1..Len(in_graph) : subject_key(in_graph[i]) = key})]

estimate_output_lines_without_separators(ts, map, expand) ==
    LET graph_lines(graph_key) ==
            LET groups == subject_groups(triples_in_graph(ts, graph_key))
                subject_lines(key) == 3 + saturating_sub(groups[key], 1) * 2
            IN  (IF IsSome(graph_key) THEN 3 ELSE 0)
                + SumOver(DOMAIN groups, subject_lines)
    IN  (IF ~expand /\ Len(map) # 0 THEN Len(map) + 1 ELSE 0)
        + SumOver({ts[k].graph : k \in 1..Len(ts)}, graph_lines)

\* mod.rs: estimate_output_lines
estimate_output_lines(ts, map, expand) ==
    LET graph_lines(graph_key) ==
            LET groups == subject_groups(triples_in_graph(ts, graph_key))
                subject_lines(key) == 3 + saturating_sub(groups[key], 1) * 2
            IN  (IF IsSome(graph_key) THEN 1 ELSE 0)
                + SumOver(DOMAIN groups, subject_lines)
                \* `if i > 0`: every iteration over subject_groups but the first
                + (Cardinality(DOMAIN groups) - 1)
                + (IF IsSome(graph_key) THEN 2 ELSE 0)
    IN  (IF ~expand /\ Len(map) # 0 THEN Len(map) + 1 ELSE 0)
        + SumOver({ts[k].graph : k \in 1..Len(ts)}, graph_lines)

InitProcess ==
    /\ ParseIdle /\ TermIdle /\ ObjectIdle /\ ExtractIdle /\ AdapterIdle /\ ProvnIdle
    /\ subject_filter = None /\ predicate_filter = None /\ object_filter = None
    /\ filtered = <<>> /\ fpc = "idle"
    /\ triples \in TripleSeqs(LayoutInputTriples, MaxRenderTriples)
    /\ prefixes \in LayoutPrefixMaps
    /\ should_expand \in BOOLEAN
    /\ colors \in BOOLEAN
    /\ terminal_width \in ProcessWidths
    /\ graph_keys = <<>> /\ graph_idx = 0 /\ triple_idx = 0
    /\ current_subject = None
    /\ output = <<>>
    /\ rpc = "idle"
    /\ no_pager_explicit = FALSE /\ use_pager = FALSE /\ auto_pager \in BOOLEAN
    /\ auto_pager_threshold = 0 /\ terminal_height = 5
    /\ estimated_lines = 0
    /\ paging = None
    /\ ppc = "process"

\* pager.rs: process_with_auto_pager up to its call of render_output, which
\* gets the same arguments whether the pager is used or not
process_with_auto_pager ==
    /\ ppc = "process"
    /\ LET estimate == estimate_output_lines(triples, prefixes, should_expand)
       IN  /\ estimated_lines' = estimate
           /\ paging' = Some(should_use_pager(no_pager_explicit, use_pager, auto_pager,
                                              auto_pager_threshold, terminal_height,
                                              estimate))
    /\ ppc' = "render"
    /\ rpc' = "call"
    /\ UNCHANGED <<no_pager_explicit, use_pager, auto_pager, auto_pager_threshold,
                   terminal_height>>
    /\ UNCHANGED <<should_expand, colors, terminal_width, graph_keys, graph_idx,
                   triple_idx, current_subject, output>>
    /\ UNCHANGED <<parseVars, filterVars, termVars, objectVars, extractVars,
                   adapterVars, provnVars>>

NextProcess == process_with_auto_pager \/ NextRender

SpecProcess == InitProcess /\ [][NextProcess]_vars

\* the triples of a graph, in input order
InGraph(g) == LET member(t) == t.graph = g IN SelectSeq(triples, member)
\* this step writes one triple of the bucket of the current graph
WritesTriple == rpc = "triple" /\ triple_idx' = triple_idx + 1
OpensGraph == rpc = "graph" /\ rpc' = "triple"
ClosesGraph == rpc = "triple" /\ rpc' = "graph"
CurrentGraph == graph_keys[graph_idx]
WrittenTriple == InGraph(CurrentGraph)[triple_idx]
PrecedingTriple == InGraph(CurrentGraph)[triple_idx - 1]
\* the lines this step writes, without colour codes
NewLines ==
    [k \in 1..(Len(output') - Len(output)) |->
        strip_ansi_codes(output'[Len(output) + k])]
SameSubject(a, b) ==
    a.subject_type = b.subject_type /\ a.subject_value = b.subject_value
StartsBlock == triple_idx = 1 \/ ~SameSubject(WrittenTriple, PrecedingTriple)
GraphIndent == IF IsSome(CurrentGraph) THEN Sp(2) ELSE Sp(0)
SubjectText == GraphIndent \o format_subject(WrittenTriple, PrefixesArg)
\* the lines of NewLines on which the subject of the written triple stands
SubjectLinesWritten ==
    {k \in 1..Len(NewLines) :
        NewLines[k] = SubjectText \/ StartsWith(NewLines[k], SubjectText \o <<" ">>)}

\* C23: in both modes the triples of a graph bucket are written in input
\* order; a subject block starts exactly when the subject differs from that
\* of the preceding triple of the bucket; a block that follows another block
\* is preceded by a blank line and the first block of the default graph is
\* not; a named graph is wrapped in `<graph> {` and `}` plus one blank line,
\* and its content is indented by two spaces.
C23_BlocksAndGraphWrapping ==
    /\ [][WritesTriple =>
            /\ triple_idx <= Len(InGraph(CurrentGraph))
            /\ EndsWith(NewLines[Len(NewLines)],
                   strip_ansi_codes(format_object(WrittenTriple, PrefixesArg, FALSE))
                       \o <<" ", ".">>)
            /\ StartsBlock <=> SubjectLinesWritten # {}
            /\ (StartsBlock /\ triple_idx > 1) => NewLines[1] = Blank
            /\ (triple_idx = 1 /\ CurrentGraph = None) => NewLines[1] # Blank
            /\ IsSome(CurrentGraph) =>
                   \A k \in 1..Len(NewLines) :
                       NewLines[k] # Blank => StartsWith(NewLines[k], Sp(2))]_vars
    /\ [][(OpensGraph /\ IsSome(CurrentGraph')) =>
            NewLines = <<resolve_uri_with_prefixes(Unwrap(CurrentGraph'), PrefixesArg)
                            \o <<" ", "{">>>>]_vars
    /\ [][(ClosesGraph /\ IsSome(CurrentGraph)) => NewLines = <<<<"}">>, Blank>>]_vars

\* C23 with the blank line required only outside the named graphs of
\* compact mode
C23_HoldsExceptCompactNamedGraphs ==
    /\ [][WritesTriple =>
            /\ triple_idx <= Len(InGraph(CurrentGraph))
            /\ EndsWith(NewLines[Len(NewLines)],
                   strip_ansi_codes(format_object(WrittenTriple, PrefixesArg, FALSE))
                       \o <<" ", ".">>)
            /\ StartsBlock <=> SubjectLinesWritten # {}
            /\ (StartsBlock /\ triple_idx > 1 /\ (should_expand \/ CurrentGraph = None))
                   => NewLines[1] = Blank
            /\ (triple_idx = 1 /\ CurrentGraph = None) => NewLines[1] # Blank
            /\ IsSome(CurrentGraph) =>
                   \A k \in 1..Len(NewLines) :
                       NewLines[k] # Blank => StartsWith(NewLines[k], Sp(2))]_vars
    /\ [][(OpensGraph /\ IsSome(CurrentGraph')) =>
            NewLines = <<resolve_uri_with_prefixes(Unwrap(CurrentGraph'), PrefixesArg)
                            \o <<" ", "{">>>>]_vars
    /\ [][(ClosesGraph /\ IsSome(CurrentGraph)) => NewLines = <<<<"}">>, Blank>>]_vars

\* another pair of the same subject block follows the written one
FollowedInBlock ==
    /\ triple_idx < Len(InGraph(CurrentGraph))
    /\ SameSubject(WrittenTriple, InGraph(CurrentGraph)[triple_idx + 1])
LastNewLine == NewLines[Len(NewLines)]

\* C24: in both modes a predicate-object pair that is followed by another
\* pair of the same subject block ends with `;` and not with `.`, and the
\* last pair of a block ends with `.`.
C24_SemicolonBetweenPairsDotAtEnd ==
    [][WritesTriple =>
          IF FollowedInBlock
          THEN EndsWith(LastNewLine, <<" ", ";">>)
          ELSE EndsWith(LastNewLine, <<" ", ".">>)]_vars

\* the last pair of every subject block ends with `.`
C24_LastPairEndsWithDot ==
    [][(WritesTriple /\ ~FollowedInBlock) => EndsWith(LastNewLine, <<" ", ".">>)]_vars

Estimated == ppc = "render"
GraphsOf(ts) == {ts[k].graph : k \in 1..Len(ts)}
SubjectsIn(ts, g) ==
    {<<ts[k].subject_type, ts[k].subject_value>> : k \in {j \in 1..Len(ts) : ts[j].graph = g}}
NamedGraphCount == Cardinality({g \in GraphsOf(triples) : IsSome(g)})
\* the subject blocks of all graphs together
SubjectBlockCount == SumOver(GraphsOf(triples), LAMBDA g : Cardinality(SubjectsIn(triples, g)))
PrefixLinesEstimated(expand) ==
    IF ~expand /\ Len(prefixes) > 0 THEN Len(prefixes) + 1 ELSE 0

\* C25: the estimate is the prefix lines plus one when compacting with a
\* non-empty prefix map, plus 3 lines per named graph, plus per distinct
\* subject of a graph 3 lines and 2 lines for each of its triples after the
\* first, plus one line for each distinct subject of a graph after the first;
\* the compact estimate is never below the expanded estimate.
C25_EstimateFormula ==
    Estimated =>
        /\ estimated_lines =
               PrefixLinesEstimated(should_expand)
               + 3 * NamedGraphCount
               \* 3 + 2 * (n - 1) per subject with n triples, summed
               + SubjectBlockCount + 2 * Len(triples)
               + (SubjectBlockCount - Cardinality(GraphsOf(triples)))
        /\ estimate_output_lines(triples, prefixes, FALSE)
               >= estimate_output_lines(triples, prefixes, TRUE)
\* an estimate with a named graph, a default graph with two subjects and a
\* subject with two triples
C25_Witness ==
    /\ Estimated /\ NamedGraphCount = 1 /\ Len(prefixes) > 0
    /\ Cardinality(SubjectsIn(triples, None)) = 2
    /\ Len(triples) = MaxRenderTriples
    /\ estimated_lines > 0

\* the written triple on one line, without colour codes
OneLineCandidate ==
    (IF StartsBlock
     THEN GraphIndent \o format_subject(WrittenTriple, PrefixesArg) \o <<" ">>
     ELSE GraphIndent \o Sp(4))
    \o strip_ansi_codes(format_predicate(WrittenTriple, PrefixesArg, FALSE))
    \o <<" ">> \o strip_ansi_codes(format_object(WrittenTriple, PrefixesArg, FALSE))
    \o <<" ", ".">>
WrittenLines == SelectSeq(NewLines, LAMBDA l : l # Blank)

MaxProvnLines == 3

ProvNs == <<"h","t","t","p",":","/","/","w","w","w",".","w","3",".","o","r","g","/","n","s","/","p","r","o","v","#">>
ProvnPrefixLine == <<"p","r","e","f","i","x"," ","e","x"," ","<","h","t","t","p",":","/","/","e","/",">">>
ProvnEntityLine == <<"e","n","t","i","t","y","(","e","x",":","a",","," ","[","e","x",":","p","=","\"","v","\"","]",")">>
ProvnActivityLine == <<"a","c","t","i","v","i","t","y","(","e","x",":","b",","," ","-",","," ","2",")">>
ProvnUsedLine == <<" "," ","u","s","e","d","(","e","x",":","b",","," ","e","x",":","a",")">>
ProvnStartedLine == <<"w","a","s","S","t","a","r","t","e","d","B","y","(","e","x",":","b",","," ","e","x",":","a",")">>
ProvnCapitalLine == <<"E","n","t","i","t","y","(","e","x",":","a",")">>
ProvnBundleLine == <<"b","u","n","d","l","e"," ","e","x",":","b">>
ProvnEndLine == <<"e","n","d","D","o","c","u","m","e","n","t">>
ProvnLines ==
    {ProvnPrefixLine, ProvnEntityLine, ProvnActivityLine, ProvnUsedLine,
     ProvnStartedLine, ProvnCapitalLine, ProvnBundleLine, ProvnEndLine}

\* str::trim_end_matches, str::trim_matches on one character
trim_end_matches(s, ch) ==
    LET keep == {i \in 1..Len(s) : s[i] # ch}
    IN  IF keep = {} THEN <<>>
        ELSE SubSeq(s, 1, CHOOSE i \in keep : \A j \in keep : j <= i)
trim_matches(s, ch) ==
    LET keep == {i \in 1..Len(s) : s[i] # ch}
    IN  IF keep = {} THEN <<>>
        ELSE SubSeq(s, CHOOSE i \in keep : \A j \in keep : i <= j,
                       CHOOSE i \in keep : \A j \in keep : j <= i)
\* the pieces of s between the positions in cuts, in order
Pieces(s, cuts) ==
    LET n == Cardinality(cuts)
        cut(k) == IF k = 0 THEN 0
                  ELSE IF k = n + 1 THEN Len(s) + 1
                  ELSE CHOOSE c \in cuts : Cardinality({d \in cuts : d < c}) = k - 1
    IN  [k \in 1..(n + 1) |-> SubSeq(s, cut(k - 1) + 1, cut(k) - 1)]
\* str::split(ch), str::split_whitespace
split(s, ch) == Pieces(s, {i \in 1..Len(s) : s[i] = ch})
split_whitespace(s) == SelectSeq(split(s, " "), LAMBDA piece : piece # <<>>)
MapSeq(sq, f(_)) == [k \in 1..Len(sq) |-> f(sq[k])]
\* the concatenation of the sequences of a sequence
Flatten(sqs) ==
    LET total == SumOver(1..Len(sqs), LAMBDA k : Len(sqs[k]))
        before(k) == SumOver(1..(k - 1), LAMBDA j : Len(sqs[j]))
        home(i) == CHOOSE k \in 1..Len(sqs) : before(k) < i /\ i <= before(k) + Len(sqs[k])
    IN  [i \in 1..total |-> sqs[home(i)][i - before(home(i))]]

\* provn.rs: parse_provn_prefix
parse_provn_prefix(line) ==
    LET trimmed == trim(line)
        parts == split_whitespace(trimmed)
    IN  IF ~StartsWith(trimmed, <<"p","r","e","f","i","x">>) THEN None
        ELSE IF Len(parts) < 3 THEN None
        ELSE Some(<<parts[2], trim_matches(trim_matches(parts[3], "<"), ">")>>)

\* provn.rs: expand_qname
expand_qname(qname, map) ==
    IF StartsWith(qname, <<"<">>) /\ EndsWith(qname, <<">">>)
    THEN trim_matches(trim_matches(qname, "<"), ">")
    ELSE LET colon_pos == Find(qname, ":")
             prefix == SubSeq(qname, 1, colon_pos - 1)
             local == SubSeq(qname, colon_pos + 1, Len(qname))
         IN  IF colon_pos > 0 /\ prefix \in Keys(map)
             THEN Lookup(map, prefix) \o local
             ELSE qname

\* provn.rs: parse_statement_args, the arguments between the commas that
\* stand outside brackets and quotes
parse_statement_args(args) ==
    LET in_quotes(i) == Cardinality({j \in 1..(i - 1) : args[j] = "\""}) % 2 = 1
        opened(i) == Cardinality({j \in 1..(i - 1) : args[j] = "[" /\ ~in_quotes(j)})
        closed(i) == Cardinality({j \in 1..(i - 1) : args[j] = "]" /\ ~in_quotes(j)})
        commas == {i \in 1..Len(args) :
                      args[i] = "," /\ opened(i) = closed(i) /\ ~in_quotes(i)}
        pieces == Pieces(args, commas)
        n == Len(pieces)
    IN  MapSeq(IF pieces[n] # <<>> THEN pieces ELSE SubSeq(pieces, 1, n - 1), trim)

\* provn.rs: parse_attributes
parse_attributes(attrs_str, map) ==
    LET attrs == trim(attrs_str)
        attr_parts == MapSeq(split(SubSeq(attrs, 2, Len(attrs) - 1), ","), trim)
        attribute(attr_part) ==
            LET eq_pos == Find(attr_part, "=")
            IN  <<expand_qname(trim(SubSeq(attr_part, 1, eq_pos - 1)), map),
                  trim_matches(trim(SubSeq(attr_part, eq_pos + 1, Len(attr_part))), "\"")>>
    IN  IF ~StartsWith(attrs, <<"[">>) \/ ~EndsWith(attrs, <<"]">>) THEN <<>>
        ELSE MapSeq(SelectSeq(attr_parts, LAMBDA part : Contains(part, "=")), attribute)

\* Result<Option<Vec<OwnedTriple>>>
StatementOk(opt) == [ok |-> TRUE, value |-> opt]
StatementErr == [ok |-> FALSE, value |-> None]

\* provn.rs: parse_entity_statement and parse_agent_statement
parse_typed_statement(args, map, type_iri) ==
    LET parts == parse_statement_args(args)
        id == expand_qname(parts[1], map)
        attribute_triple(attr) == create_triple(id, attr[1], attr[2], "Literal")
    IN  IF parts = <<>> THEN StatementOk(None)
        ELSE StatementOk(Some(
                 <<create_type_triple(id, type_iri)>>
                 \o (IF Len(parts) > 1
                     THEN MapSeq(parse_attributes(parts[2], map), attribute_triple)
                     ELSE <<>>)))
\* provn.rs: parse_activity_statement
parse_activity_statement(args, map) ==
    LET parts == parse_statement_args(args)
        activity_id == expand_qname(parts[1], map)
        present(k) == Len(parts) >= k /\ parts[k] # <<>> /\ parts[k] # <<"-">>
    IN  IF parts = <<>> THEN StatementOk(None)
        ELSE StatementOk(Some(
                 <<create_type_triple(activity_id, ProvNs \o <<"A","c","t","i","v","i","t","y">>)>>
                 \o (IF present(2)
                     THEN <<create_triple(activity_id, ProvNs \o <<"s","t","a","r","t","e","d","A","t","T","i","m","e">>,
                                          parts[2], "Literal")>>
                     ELSE <<>>)
                 \o (IF present(3)
                     THEN <<create_triple(activity_id, ProvNs \o <<"e","n","d","e","d","A","t","T","i","m","e">>,
                                          parts[3], "Literal")>>
                     ELSE <<>>)))
\* provn.rs: parse_was_generated_by_statement and the six parsers like it
parse_relation_statement(args, map, predicate) ==
    LET parts == parse_statement_args(args)
    IN  IF Len(parts) < 2 THEN StatementOk(None)
        ELSE StatementOk(Some(<<create_triple(expand_qname(parts[1], map), predicate,
                                              expand_qname(parts[2], map), "NamedNode")>>))

BinaryRelations ==
    {<<"w","a","s","G","e","n","e","r","a","t","e","d","B","y">>,
     <<"u","s","e","d">>,
     <<"w","a","s","A","s","s","o","c","i","a","t","e","d","W","i","t","h">>,
     <<"w","a","s","A","t","t","r","i","b","u","t","e","d","T","o">>,
     <<"w","a","s","D","e","r","i","v","e","d","F","r","o","m">>,
     <<"w","a","s","I","n","f","o","r","m","e","d","B","y">>,
     <<"a","c","t","e","d","O","n","B","e","h","a","l","f","O","f">>}

match_relation_type_rejects_unknown(relation_type, args, map) ==
    IF relation_type = <<"e","n","t","i","t","y">>
    THEN parse_typed_statement(args, map, ProvNs \o <<"E","n","t","i","t","y">>)
    ELSE IF relation_type = <<"a","c","t","i","v","i","t","y">>
    THEN parse_activity_statement(args, map)
    ELSE IF relation_type = <<"a","g","e","n","t">>
    THEN parse_typed_statement(args, map, ProvNs \o <<"A","g","e","n","t">>)
    ELSE IF relation_type \in BinaryRelations
    THEN parse_relation_statement(args, map, ProvNs \o relation_type)
    ELSE StatementErr

\* provn.rs: the match of parse_provn_statement
match_relation_type(relation_type, args, map) ==
    IF relation_type = <<"e","n","t","i","t","y">>
    THEN parse_typed_statement(args, map, ProvNs \o <<"E","n","t","i","t","y">>)
    ELSE IF relation_type = <<"a","c","t","i","v","i","t","y">>
    THEN parse_activity_statement(args, map)
    ELSE IF relation_type = <<"a","g","e","n","t">>
    THEN parse_typed_statement(args, map, ProvNs \o <<"A","g","e","n","t">>)
    ELSE IF relation_type \in BinaryRelations
    THEN parse_relation_statement(args, map, ProvNs \o relation_type)
    ELSE StatementOk(None)

\* provn.rs: parse_provn_statement
parse_provn_statement(statement, map) ==
    LET inner == trim_end_matches(trim(statement), ")")
        paren_pos == Find(inner, "(")
    IN  IF paren_pos = 0 THEN StatementErr
        ELSE match_relation_type(trim(SubSeq(inner, 1, paren_pos - 1)),
                                 trim(SubSeq(inner, paren_pos + 1, Len(inner))), map)

\* the lines the second pass does not hand to parse_provn_statement
provn_skipped(trimmed) ==
    \/ trimmed = <<>>
    \/ StartsWith(trimmed, <<"/", "/">>)
    \/ StartsWith(trimmed, <<"d","o","c","u","m","e","n","t">>)
    \/ StartsWith(trimmed, <<"e","n","d","D","o","c","u","m","e","n","t">>)
    \/ StartsWith(trimmed, <<"p","r","e","f","i","x">>)

InitProvn ==
    /\ ParseIdle /\ FilterIdle /\ TermIdle /\ RenderIdle
    /\ ObjectIdle /\ PagerIdle /\ ExtractIdle /\ AdapterIdle
    /\ provn_input \in UNION {[1..n -> ProvnLines] : n \in 0..MaxProvnLines}
    /\ lines_buffer = <<>>
    /\ provn_prefixes = HashMap_new
    /\ provn_idx = 0
    /\ provn_triples = <<>>
    /\ provn_ret = None
    /\ vpc = "first"

ProvnOthers ==
    <<parseVars, filterVars, termVars, renderVars, objectVars, pagerVars, extractVars,
      adapterVars>>

\* first pass, one line
provn_collect_line ==
    /\ vpc = "first"
    /\ Len(lines_buffer) < Len(provn_input)
    /\ LET line == provn_input[Len(lines_buffer) + 1]
           declared == parse_provn_prefix(line)
       IN  /\ lines_buffer' = Append(lines_buffer, line)
           /\ provn_prefixes' =
                  IF IsSome(declared)
                  THEN Insert(provn_prefixes, Unwrap(declared)[1], Unwrap(declared)[2])
                  ELSE provn_prefixes
    /\ UNCHANGED <<provn_input, provn_idx, provn_triples, provn_ret, vpc>>
    /\ UNCHANGED ProvnOthers

provn_first_pass_ends ==
    /\ vpc = "first"
    /\ Len(lines_buffer) = Len(provn_input)
    /\ vpc' = "second"
    /\ UNCHANGED <<provn_input, lines_buffer, provn_prefixes, provn_idx, provn_triples,
                   provn_ret>>
    /\ UNCHANGED ProvnOthers

\* second pass, one line: skipped, interpreted, or the error that ends the call
provn_interpret_line ==
    /\ vpc = "second"
    /\ provn_idx < Len(lines_buffer)
    /\ LET trimmed == trim(lines_buffer[provn_idx + 1])
           parsed == parse_provn_statement(trimmed, provn_prefixes)
       IN  IF provn_skipped(trimmed)
           THEN /\ provn_idx' = provn_idx + 1
                /\ UNCHANGED <<provn_triples, provn_ret, vpc>>
           ELSE IF ~parsed.ok
           THEN /\ provn_ret' = Some([ok |-> FALSE, triples |-> <<>>, prefixes |-> <<>>])
                /\ vpc' = "returned"
                /\ UNCHANGED <<provn_idx, provn_triples>>
           ELSE /\ provn_idx' = provn_idx + 1
                /\ provn_triples' =
                       IF IsSome(parsed.value)
                       THEN provn_triples \o Unwrap(parsed.value)
                       ELSE provn_triples
                /\ UNCHANGED <<provn_ret, vpc>>
    /\ UNCHANGED <<provn_input, lines_buffer, provn_prefixes>>
    /\ UNCHANGED ProvnOthers

provn_return ==
    /\ vpc = "second"
    /\ provn_idx = Len(lines_buffer)
    /\ provn_ret' = Some([ok |-> TRUE, triples |-> provn_triples,
                          prefixes |-> provn_prefixes])
    /\ vpc' = "returned"
    /\ UNCHANGED <<provn_input, lines_buffer, provn_prefixes, provn_idx, provn_triples>>
    /\ UNCHANGED ProvnOthers

NextProvn ==
    \/ provn_collect_line
    \/ provn_first_pass_ends
    \/ provn_interpret_line
    \/ provn_return

SpecProvn == InitProvn /\ [][NextProvn]_vars

ProvnReturned == vpc = "returned"
WhitelistedRelations ==
    BinaryRelations \cup {<<"e","n","t","i","t","y">>, <<"a","c","t","i","v","i","t","y">>, <<"a","g","e","n","t">>}
\* a line keyword(arguments
IsStatementLine(line) == Contains(line, "(") /\ ~provn_skipped(trim(line))
KeywordOf(line) == trim(SubSeq(trim(line), 1, Find(trim(line), "(") - 1))
UnknownStatement(line) == IsStatementLine(line) /\ KeywordOf(line) \notin WhitelistedRelations
\* the triples of the lines of a document, in document order
TriplesOfLines(doc, map) ==
    LET of_line(line) ==
            LET parsed == parse_provn_statement(trim(line), map)
            IN  IF provn_skipped(trim(line)) \/ ~parsed.ok \/ parsed.value = None
                THEN <<>>
                ELSE Unwrap(parsed.value)
    IN  Flatten(MapSeq(doc, of_line))
\* no line of the input is neither skipped nor a statement
OnlyStatements ==
    \A k \in 1..Len(provn_input) :
        provn_skipped(trim(provn_input[k])) \/ IsStatementLine(provn_input[k])

Reorderings(map) ==
    {[k \in 1..Len(map) |-> map[pi[k]]] : pi \in Permutations(1..Len(map))}
StartsRendering == rpc = "call" /\ rpc' # "call"

\* C28: the rendered text depends on the entries of the prefix map only:
\* with the same triples and flags, every map with the same entries gives
\* the same PREFIX lines in the same order and the same prefixed name for
\* each subject and object, also for an IRI that several namespaces cover.
C28_RenderingDeterministic ==
    /\ [][(StartsRendering /\ ~should_expand) =>
            \A map \in Reorderings(prefixes) :
                output' = print_prefixes_to_writer(map, colors)]_vars
    /\ [][(WritesTriple /\ ~should_expand) =>
            \A map \in Reorderings(prefixes) :
                /\ EndsWith(LastNewLine,
                       strip_ansi_codes(format_object(WrittenTriple, Some(map), FALSE))
                           \o <<" ", ".">>)
                /\ StartsBlock =>
                       \E k \in 1..Len(NewLines) :
                           StartsWith(NewLines[k],
                               GraphIndent \o format_subject(WrittenTriple, Some(map)))]_vars

\* C28 for maps of at most one entry
C28_HoldsForSingleNamespace ==
    /\ [][(StartsRendering /\ ~should_expand /\ Len(prefixes) <= 1) =>
            \A map \in Reorderings(prefixes) :
                output' = print_prefixes_to_writer(map, colors)]_vars
    /\ [][(WritesTriple /\ ~should_expand /\ Len(prefixes) <= 1) =>
            \A map \in Reorderings(prefixes) :
                EndsWith(LastNewLine,
                    strip_ansi_codes(format_object(WrittenTriple, Some(map), FALSE))
                        \o <<" ", ".">>)]_vars

\* in every graph the triples of one subject follow one another
SubjectsConsecutive ==
    \A g \in GraphsOf(triples) :
        \A i, j, k \in 1..Len(InGraph(g)) :
            (i < j /\ j < k /\ SameSubject(InGraph(g)[i], InGraph(g)[k]))
                => SameSubject(InGraph(g)[i], InGraph(g)[j])

C29_CompactBelowEstimate ==
    /\ Rendered /\ ppc = "render" /\ SubjectsConsecutive /\ ~should_expand
    /\ Len(triples) = MaxRenderTriples
    /\ estimated_lines > Len(output)

\* the output without colour codes
PlainOutput == [k \in 1..Len(output) |-> strip_ansi_codes(output[k])]
\* the lines of the output that end a predicate-object pair, in order
PairEnds(plain) ==
    SelectSeq([k \in 1..Len(plain) |-> k],
              LAMBDA k : k > PrefixBlock /\ EndsWith(plain[k], <<" ", ".">>))
\* the `<graph> {` line whose block line k stands in, 0 outside every block
BlockOf(plain, k) ==
    LET opens == {j \in 1..(k - 1) :
                     /\ EndsWith(plain[j], <<" ", "{">>)
                     /\ \A i \in (j + 1)..(k - 1) : plain[i] # <<"}">>}
    IN  IF opens = {} THEN 0 ELSE CHOOSE j \in opens : \A i \in opens : i <= j
HeaderOf(g) == resolve_uri_with_prefixes(Unwrap(g), PrefixesArg) \o <<" ", "{">>
\* the pair ends that stand in the block of graph g, in order
PairEndsIn(plain, ends, g) ==
    SelectSeq(ends,
              LAMBDA k : IF g = None THEN BlockOf(plain, k) = 0
                         ELSE /\ BlockOf(plain, k) # 0
                              /\ plain[BlockOf(plain, k)] = HeaderOf(g))
Within(text, part) ==
    \E i \in 0..(Len(text) - Len(part)) : SubSeq(text, i + 1, i + Len(part)) = part
\* line k ends the pair of triple t
EndsPairOf(plain, k, t) ==
    /\ EndsWith(plain[k],
           strip_ansi_codes(format_object(t, PrefixesArg, FALSE)) \o <<" ", ".">>)
    /\ LET predicate == strip_ansi_codes(format_predicate(t, PrefixesArg, FALSE))
       IN  Within(plain[k], predicate) \/ (k > 1 /\ Within(plain[k - 1], predicate))

\* C30: the rendering has exactly one predicate-object pair per input
\* triple; the pairs of the default graph stand outside every `{ }` block
\* and those of a named graph inside the block of that graph, each in the
\* order of the input.
C30_RenderingConservesTriples ==
    Rendered =>
        LET plain == PlainOutput
            ends == PairEnds(plain)
        IN  /\ Len(ends) = Len(triples)
            /\ \A g \in GraphsOf(triples) :
                   LET in_block == PairEndsIn(plain, ends, g)
                       in_graph == InGraph(g)
                   IN  /\ Len(in_block) = Len(in_graph)
                       /\ \A n \in 1..Len(in_graph) :
                              EndsPairOf(plain, in_block[n], in_graph[n])
\* both graphs rendered, the named one with two different triples
C30_Witness ==
    /\ Rendered /\ Len(triples) = MaxRenderTriples
    /\ Len(PairEnds(PlainOutput)) = Len(triples)
    /\ \E g \in GraphsOf(triples) :
           /\ IsSome(g) /\ Len(PairEndsIn(PlainOutput, PairEnds(PlainOutput), g)) = 2
           /\ InGraph(g)[1] # InGraph(g)[2]
    /\ Len(PairEndsIn(PlainOutput, PairEnds(PlainOutput), None)) = 1

=============================================================================
